---- MODULE Spec2Model ----
(***************************************************************************)
(* A model of the mutation orchestration layer of google-drive-backend:    *)
(* the upload saga (routes/files.ts), the capability-token routes          *)
(* (routes/share.ts and the share-token route of routes/files.ts) and the  *)
(* clipboard routes (routes/clipboard.ts), the folder routes               *)
(* (routes/folders.ts), the file delete and update routes, the edit of a   *)
(* shared file and the creation of a share link.                           *)
(*                                                                         *)
(* Every request is a process held in a slot of req.  One action models    *)
(* one awaited store call of a handler together with the synchronous code  *)
(* that follows it up to the next awaited call, so that requests           *)
(* interleave exactly at the calls to the metadata store and the blob      *)
(* store.  A store call either takes effect or returns an error; the       *)
(* handlers never see a thrown exception from the client library.          *)
(***************************************************************************)
EXTENDS Integers, Sequences, FiniteSets, TLC

(***************************************************************************)
(* Bounds of the model.                                                    *)
(***************************************************************************)
MaxSlots == 2
MaxUploads == 2
MaxTime == 2
MaxResolves == 3
MaxClipReqs == 3
MaxTreeReqs == 2
MaxDeletes == 3
MaxEdits == 2
MaxIssues == 3
MaxLogged == 2

NULL == 0
NaN == -1
\* a null max_access_count, as distinct from the number 0
NullCount == -1
\* a body field that is absent, as distinct from null
Undefined == -3
\* a share token that is not made of hexadecimal digits and dashes
BadToken == -2
\* the id of no row of any table
MissingId == 9

Users == {1, 2}
Uploaders == {1}
Slots == 1..MaxSlots

(***************************************************************************)
(* File names are sequences of characters.                                 *)
(***************************************************************************)
NameSp == <<"a", " ", ".", "t">>
NameUs == <<"a", "_", ".", "t">>
Names == {NameSp, NameUs}
UploadNames == {NameSp}

SafeChars == {"a", "t", "C", "o", "p", "y", ".", "-"}

VARIABLES files, folders, perms, blobs, versions, clipboard, logs,
          nextFileId, nextFolderId, nextPermId, nextClipId, nextToken,
          now, req, nreq, pathsUsed, pathsReused, served, copies, faults

store == <<files, folders, perms, blobs, versions, clipboard, logs>>
seqs == <<nextFileId, nextFolderId, nextPermId, nextClipId, nextToken>>
vars == <<files, folders, perms, blobs, versions, clipboard, logs,
          nextFileId, nextFolderId, nextPermId, nextClipId, nextToken,
          now, req, nreq, pathsUsed, pathsReused, served, copies, faults>>

(***************************************************************************)
(* file.originalname.replace(/[^a-zA-Z0-9.-]/g, '_')                       *)
(***************************************************************************)
Sanitize(s) == [i \in DOMAIN s |-> IF s[i] \in SafeChars THEN s[i] ELSE "_"]

MainPath(u, ts, n) == [ns |-> "main", user |-> u, ts |-> ts, name |-> Sanitize(n)]
VersionPath(u, ts, n) == [ns |-> "versions", user |-> u, ts |-> ts, name |-> Sanitize(n)]

NoPerm == [id |-> NULL]
NoClip == [id |-> NULL]

Idle ==
  [kind |-> "none", pc |-> "idle", user |-> NULL, status |-> 0,
   name |-> <<>>, folder |-> NULL, ts |-> 0, fileId |-> NULL,
   verr |-> FALSE, failedAt |-> "none", compOk |-> TRUE,
   token |-> NULL, perm |-> NoPerm, clip |-> NoClip, newPath |-> NULL,
   err |-> "none", usable |-> TRUE, wrote |-> FALSE, sent |-> FALSE,
   op |-> "none", itemType |-> "none", item |-> NULL, kids |-> FALSE,
   ver |-> 0, oldName |-> <<>>, role |-> "none", newer |-> FALSE]

\* pc "done": the response was sent and no request has arrived since;
\* pc "old": the response was sent before the latest request arrived
Active(r) == req[r].pc \notin {"idle", "done", "old"}
Finished(r) == req[r].pc \in {"done", "old"}

\* request rec arrives in slot r
Arrive(r, rec) ==
  [s \in Slots |-> IF s = r THEN rec
                   ELSE IF req[s].pc = "done" THEN [req[s] EXCEPT !.pc = "old"]
                   ELSE req[s]]

\* no request is being handled
Quiet == \A r \in Slots : ~Active(r)

(***************************************************************************)
(* .single() yields the row when the filter matches exactly one row and    *)
(* an error otherwise.                                                     *)
(***************************************************************************)
Single(S) == IF Cardinality(S) = 1 THEN S ELSE {}

LiveFolder(id, u) ==
  Single({f \in folders : f.id = id /\ f.user_id = u /\ f.deleted_at = NULL})

(***************************************************************************)
(* GET /files: the rows a listing of user u returns.                       *)
(***************************************************************************)
Listing(u) == {f \in files : f.user_id = u /\ f.deleted_at = NULL}

(***************************************************************************)
(* Column defaults of a permissions row the insert does not set.           *)
(***************************************************************************)
PermDefaults ==
  [can_download |-> TRUE, can_preview |-> TRUE, expires_at |-> NULL,
   max_access_count |-> NullCount, access_count |-> 0]

PermRow(id, fid, u, role, tok) ==
  [id |-> id, file_id |-> fid, user_id |-> u, role |-> role, share_token |-> tok,
   can_download |-> PermDefaults.can_download,
   can_preview |-> PermDefaults.can_preview,
   expires_at |-> PermDefaults.expires_at,
   max_access_count |-> PermDefaults.max_access_count,
   access_count |-> PermDefaults.access_count]

(***************************************************************************)
(* uuidv4(): a token no earlier call returned.                             *)
(***************************************************************************)
UuidV4 == nextToken

Respond(r, code) == [req[r] EXCEPT !.pc = "done", !.status = code]

\* an error response with its message
Fail(r, code, why) == [Respond(r, code) EXCEPT !.err = why]

\* a response sent before the handler has touched the store
Early(kind, code) == [Idle EXCEPT !.kind = kind, !.pc = "done", !.status = code]

\* history: the blob paths given to one File row and to more than one, the
\* number of successful resolutions per token, the number of successful file
\* copies, whether a store call of a share or clipboard route has returned
\* an error
pathHist == <<pathsUsed, pathsReused>>
counts == <<served, copies>>
ghost == <<pathsUsed, pathsReused, served, copies, faults>>

(***************************************************************************)
(* The clock read by Date.now().                                           *)
(***************************************************************************)
Tick ==
  /\ now < MaxTime
  /\ now' = now + 1
  /\ UNCHANGED <<store, seqs, req, nreq, ghost>>

(***************************************************************************)
(* POST /files/upload                                                      *)
(***************************************************************************)
\* as UploadStart, but the path is built without Date.now()
UploadStartNoStamp(r) ==
  /\ ~Active(r)
  /\ nreq < MaxUploads
  /\ nreq' = nreq + 1
  /\ \E u \in Uploaders, n \in UploadNames :
       req' = Arrive(r, [Idle EXCEPT !.kind = "upload", !.user = u, !.name = n,
                                     !.pc = "u_insert", !.ts = 0])
  /\ UNCHANGED <<store, seqs, now, ghost>>

UploadStart(r) ==
  /\ ~Active(r)
  /\ nreq < MaxUploads
  /\ nreq' = nreq + 1
  /\ \E u \in Uploaders, n \in UploadNames, hasFile \in BOOLEAN,
        fp \in {NULL, NaN, MissingId} \cup {f.id : f \in folders} :
       LET base == [Idle EXCEPT !.kind = "upload", !.user = u, !.name = n]
       IN req' = Arrive(r,
            IF ~hasFile THEN Early("upload", 400)
            ELSE IF fp = NaN THEN Early("upload", 400)
            ELSE IF fp # NULL THEN [base EXCEPT !.pc = "u_folder", !.folder = fp]
            ELSE [base EXCEPT !.pc = "u_insert", !.ts = now])
  /\ UNCHANGED <<store, seqs, now, ghost>>

UploadFolderCheck(r) ==
  /\ req[r].pc = "u_folder"
  /\ \E ok \in BOOLEAN :
       req' = [req EXCEPT ![r] =
         IF ok /\ LiveFolder(req[r].folder, req[r].user) # {}
         THEN [@ EXCEPT !.pc = "u_insert", !.ts = now]
         ELSE Early("upload", 404)]
  /\ UNCHANGED <<store, seqs, now, nreq, ghost>>

UploadInsertFile(r) ==
  /\ req[r].pc = "u_insert"
  /\ \E ok \in BOOLEAN :
       IF ok
       THEN /\ files' = files \cup
                 {[id |-> nextFileId, name |-> req[r].name,
                   path |-> MainPath(req[r].user, req[r].ts, req[r].name),
                   user_id |-> req[r].user, folder_id |-> req[r].folder,
                   deleted_at |-> NULL]}
            /\ nextFileId' = nextFileId + 1
            /\ req' = [req EXCEPT ![r].pc = "u_put", ![r].fileId = nextFileId]
            /\ LET p == MainPath(req[r].user, req[r].ts, req[r].name)
               IN /\ pathsUsed' = pathsUsed \cup {p}
                  /\ pathsReused' = IF p \in pathsUsed THEN pathsReused \cup {p}
                                    ELSE pathsReused
       ELSE /\ req' = [req EXCEPT ![r] =
                 [Early("upload", 500) EXCEPT !.failedAt = "insert"]]
            /\ UNCHANGED <<files, nextFileId, ghost>>
  /\ UNCHANGED <<folders, perms, blobs, versions, clipboard, logs,
                 nextFolderId, nextPermId, nextClipId, nextToken, now, nreq,
                 counts, faults>>

UploadPutMain(r) ==
  /\ req[r].pc = "u_put"
  /\ \E ok \in BOOLEAN :
       LET p == MainPath(req[r].user, req[r].ts, req[r].name)
       IN IF ok /\ p \notin blobs
          THEN /\ blobs' = blobs \cup {p}
               /\ req' = [req EXCEPT ![r].pc = "u_vput"]
          ELSE /\ req' = [req EXCEPT ![r].pc = "u_undo_row", ![r].failedAt = "put"]
               /\ UNCHANGED blobs
  /\ UNCHANGED <<files, folders, perms, versions, clipboard, logs, seqs, now, nreq, ghost>>

\* storage upload failed: delete the file row, then throw
UploadUndoRow(r) ==
  /\ req[r].pc = "u_undo_row"
  /\ \E ok \in BOOLEAN :
       IF ok
       THEN /\ files' = {f \in files : f.id # req[r].fileId}
            /\ req' = [req EXCEPT ![r] = Respond(r, 500)]
       ELSE /\ req' = [req EXCEPT ![r] = [Respond(r, 500) EXCEPT !.compOk = FALSE]]
            /\ UNCHANGED files
  /\ UNCHANGED <<folders, perms, blobs, versions, clipboard, logs, seqs, now, nreq, ghost>>

\* as UploadPutVersion, but a failed version upload rolls the upload back
UploadPutVersionFatal(r) ==
  /\ req[r].pc = "u_vput"
  /\ \E ok \in BOOLEAN :
       LET vp == VersionPath(req[r].user, req[r].ts, req[r].name)
       IN IF ok /\ vp \notin blobs
          THEN /\ blobs' = blobs \cup {vp}
               /\ req' = [req EXCEPT ![r].pc = "u_perm", ![r].verr = FALSE]
          ELSE /\ req' = [req EXCEPT ![r].pc = "u_rb_main", ![r].verr = TRUE]
               /\ UNCHANGED blobs
  /\ UNCHANGED <<files, folders, perms, versions, clipboard, logs, seqs, now, nreq, ghost>>

UploadPutVersion(r) ==
  /\ req[r].pc = "u_vput"
  /\ \E ok \in BOOLEAN :
       LET vp == VersionPath(req[r].user, req[r].ts, req[r].name)
       IN IF ok /\ vp \notin blobs
          THEN /\ blobs' = blobs \cup {vp}
               /\ req' = [req EXCEPT ![r].pc = "u_perm", ![r].verr = FALSE]
          ELSE /\ req' = [req EXCEPT ![r].pc = "u_perm", ![r].verr = TRUE]
               /\ UNCHANGED blobs
  /\ UNCHANGED <<files, folders, perms, versions, clipboard, logs, seqs, now, nreq, ghost>>

\* as UploadInsertPerm, but the insert's error is not looked at
UploadInsertPermUnchecked(r) ==
  /\ req[r].pc = "u_perm"
  /\ \E ok \in BOOLEAN :
       /\ perms' = IF ok
            THEN perms \cup
                   {PermRow(nextPermId, req[r].fileId, req[r].user, "owner", UuidV4)}
            ELSE perms
       /\ nextPermId' = IF ok THEN nextPermId + 1 ELSE nextPermId
       /\ nextToken' = IF ok THEN nextToken + 1 ELSE nextToken
       /\ req' = [req EXCEPT ![r].pc = IF req[r].verr THEN "u_log" ELSE "u_ver"]
  /\ UNCHANGED <<files, folders, blobs, versions, clipboard, logs,
                 nextFileId, nextFolderId, nextClipId, now, nreq, ghost>>

UploadInsertPerm(r) ==
  /\ req[r].pc = "u_perm"
  /\ \E ok \in BOOLEAN :
       IF ok
       THEN /\ perms' = perms \cup
                 {PermRow(nextPermId, req[r].fileId, req[r].user, "owner", UuidV4)}
            /\ nextPermId' = nextPermId + 1
            /\ nextToken' = nextToken + 1
            /\ req' = [req EXCEPT ![r].pc = IF req[r].verr THEN "u_log" ELSE "u_ver"]
       ELSE /\ req' = [req EXCEPT ![r].pc = "u_rb_main", ![r].failedAt = "perm"]
            /\ UNCHANGED <<perms, nextPermId, nextToken>>
  /\ UNCHANGED <<files, folders, blobs, versions, clipboard, logs,
                 nextFileId, nextFolderId, nextClipId, now, nreq, ghost>>

\* as UploadRbMain, but the main blob is left in place
UploadRbMainSkipped(r) ==
  /\ req[r].pc = "u_rb_main"
  /\ req' = [req EXCEPT ![r].pc = IF req[r].verr THEN "u_rb_row" ELSE "u_rb_ver"]
  /\ UNCHANGED <<store, seqs, now, nreq, ghost>>

\* permission insert failed: remove([filePath])
UploadRbMain(r) ==
  /\ req[r].pc = "u_rb_main"
  /\ \E ok \in BOOLEAN :
       LET nxt == IF req[r].verr THEN "u_rb_row" ELSE "u_rb_ver"
       IN IF ok
          THEN /\ blobs' = blobs \ {MainPath(req[r].user, req[r].ts, req[r].name)}
               /\ req' = [req EXCEPT ![r].pc = nxt]
          ELSE /\ req' = [req EXCEPT ![r].pc = nxt, ![r].compOk = FALSE]
               /\ UNCHANGED blobs
  /\ UNCHANGED <<files, folders, perms, versions, clipboard, logs, seqs, now, nreq, ghost>>

\* if (!versionStorageError) remove([versionPath])
UploadRbVersion(r) ==
  /\ req[r].pc = "u_rb_ver"
  /\ \E ok \in BOOLEAN :
       IF ok
       THEN /\ blobs' = blobs \ {VersionPath(req[r].user, req[r].ts, req[r].name)}
            /\ req' = [req EXCEPT ![r].pc = "u_rb_row"]
       ELSE /\ req' = [req EXCEPT ![r].pc = "u_rb_row", ![r].compOk = FALSE]
            /\ UNCHANGED blobs
  /\ UNCHANGED <<files, folders, perms, versions, clipboard, logs, seqs, now, nreq, ghost>>

\* as UploadRbRow, but the file row is left in place
UploadRbRowSkipped(r) ==
  /\ req[r].pc = "u_rb_row"
  /\ req' = [req EXCEPT ![r] = Respond(r, 500)]
  /\ UNCHANGED <<store, seqs, now, nreq, ghost>>

UploadRbRow(r) ==
  /\ req[r].pc = "u_rb_row"
  /\ \E ok \in BOOLEAN :
       IF ok
       THEN /\ files' = {f \in files : f.id # req[r].fileId}
            /\ req' = [req EXCEPT ![r] = Respond(r, 500)]
       ELSE /\ req' = [req EXCEPT ![r] = [Respond(r, 500) EXCEPT !.compOk = FALSE]]
            /\ UNCHANGED files
  /\ UNCHANGED <<folders, perms, blobs, versions, clipboard, logs, seqs, now, nreq, ghost>>

\* file_versions insert, version_number 1; its error is only logged
UploadInsertVersion(r) ==
  /\ req[r].pc = "u_ver"
  /\ \E ok \in BOOLEAN :
       /\ versions' = IF ok
            THEN versions \cup
                   {[file_id |-> req[r].fileId, version_number |-> 1,
                     path |-> VersionPath(req[r].user, req[r].ts, req[r].name),
                     created_by |-> req[r].user]}
            ELSE versions
       /\ req' = [req EXCEPT ![r].pc = "u_log"]
  /\ UNCHANGED <<files, folders, perms, blobs, clipboard, logs, seqs, now, nreq, ghost>>

(***************************************************************************)
(* logActivity: the insert's error and any exception are swallowed.        *)
(***************************************************************************)
LogActivity(u, fid, action, ok) ==
  IF ok THEN logs \cup {action} ELSE logs

UploadLog(r) ==
  /\ req[r].pc = "u_log"
  /\ \E ok \in BOOLEAN :
       logs' = LogActivity(req[r].user, req[r].fileId, "upload", ok)
  /\ req' = [req EXCEPT ![r] = Respond(r, 201)]
  /\ UNCHANGED <<files, folders, perms, blobs, versions, clipboard, seqs, now, nreq, ghost>>

Upload(r) ==
  \/ UploadStart(r)
  \/ UploadFolderCheck(r)
  \/ UploadInsertFile(r)
  \/ UploadPutMain(r)
  \/ UploadUndoRow(r)
  \/ UploadPutVersion(r)
  \/ UploadInsertPerm(r)
  \/ UploadRbMain(r)
  \/ UploadRbVersion(r)
  \/ UploadRbRow(r)
  \/ UploadInsertVersion(r)
  \/ UploadLog(r)

(***************************************************************************)
(* Initial stores.                                                         *)
(***************************************************************************)
FolderRow(id, u, parent, del) ==
  [id |-> id, name |-> <<"a">>, user_id |-> u, parent_id |-> parent, deleted_at |-> del]

InitFolders == {FolderRow(1, 1, NULL, NULL), FolderRow(2, 2, NULL, NULL),
                FolderRow(3, 1, NULL, 1)}

InitCommon ==
  /\ logs = {}
  /\ now = 1
  /\ req = [r \in Slots |-> Idle]
  /\ nreq = 0
  /\ pathsUsed = {}
  /\ pathsReused = {}
  /\ served = [t \in {1, 2, 3, BadToken} |-> 0]
  /\ faults = FALSE
  /\ copies = 0

InitUpload ==
  /\ InitCommon
  /\ files = {}
  /\ folders = InitFolders
  /\ perms = {}
  /\ blobs = {}
  /\ versions = {}
  /\ clipboard = {}
  /\ nextFileId = 1
  /\ nextFolderId = 4
  /\ nextPermId = 1
  /\ nextClipId = 1
  /\ nextToken = 1

NextUpload == Tick \/ \E r \in Slots : Upload(r)

SpecUpload == InitUpload /\ [][NextUpload]_vars

(***************************************************************************)
(* The clipboard router: POST /clipboard/:operation/:itemType/:itemId,     *)
(* POST /clipboard/paste/:folderId?, DELETE /clipboard/clear.              *)
(***************************************************************************)
Pasters == {1}

\* index of the last "." of a name, 0 when there is none
LastDot(s) ==
  LET dots == {i \in DOMAIN s : s[i] = "."}
  IN IF dots = {} THEN 0 ELSE CHOOSE i \in dots : \A j \in dots : j <= i

\* path.extname: from the last "." on, empty when the name has no "." or
\* only a leading one
ExtName(s) == IF LastDot(s) <= 1 THEN <<>> ELSE SubSeq(s, LastDot(s), Len(s))

\* path.basename(name, ext)
BaseName(s) == SubSeq(s, 1, Len(s) - Len(ExtName(s)))

\* `${fileName} - Copy${fileExt}`
CopyName(s) == BaseName(s) \o <<" ", "-", " ", "C", "o", "p", "y">> \o ExtName(s)

OwnFile(id, u) == Single({f \in files : f.id = id /\ f.user_id = u})
OwnLiveFile(id, u) ==
  Single({f \in files : f.id = id /\ f.user_id = u /\ f.deleted_at = NULL})
OwnFolder(id, u) == Single({f \in folders : f.id = id /\ f.user_id = u})

ClipOf(u) == {c \in clipboard : c.user_id = u}

ClipStart(r) ==
  /\ ~Active(r)
  /\ nreq < MaxClipReqs
  /\ nreq' = nreq + 1
  /\ \E u \in Pasters, op \in {"copy", "cut", "move"}, ty \in {"file", "folder"},
        id \in {f.id : f \in files} \cup {f.id : f \in folders} \cup {MissingId} :
       req' = Arrive(r,
         IF op \notin {"copy", "cut"}
         THEN Early("setclip", 400)
         ELSE [Idle EXCEPT !.kind = "setclip", !.user = u, !.op = op,
                           !.itemType = ty, !.item = id, !.pc = "c_item"])
  /\ UNCHANGED <<store, seqs, now, ghost>>

\* as ClipCheckItem, but an item of another user is answered 403
ClipCheckItemForbidden(r) ==
  /\ req[r].kind = "setclip" /\ req[r].pc = "c_item"
  /\ \E ok \in BOOLEAN :
       /\ faults' = (faults \/ ~ok)
       /\ LET row == IF req[r].itemType = "file"
                     THEN OwnLiveFile(req[r].item, req[r].user)
                     ELSE LiveFolder(req[r].item, req[r].user)
              any == IF req[r].itemType = "file"
                     THEN {f \in files : f.id = req[r].item}
                     ELSE {f \in folders : f.id = req[r].item}
          IN req' = [req EXCEPT ![r] =
               IF ~ok \/ any = {} THEN Fail(r, 404, "item")
               ELSE IF row = {} THEN Fail(r, 403, "item")
               ELSE [@ EXCEPT !.pc = "c_delete"]]
  /\ UNCHANGED <<store, seqs, now, nreq, pathHist, counts>>

\* the item must exist, be live and belong to the user
ClipCheckItem(r) ==
  /\ req[r].kind = "setclip" /\ req[r].pc = "c_item"
  /\ \E ok \in BOOLEAN :
       /\ faults' = (faults \/ ~ok)
       /\ LET row == IF req[r].itemType = "file"
                     THEN OwnLiveFile(req[r].item, req[r].user)
                     ELSE LiveFolder(req[r].item, req[r].user)
          IN req' = [req EXCEPT ![r] =
               IF ~ok \/ row = {} THEN Fail(r, 404, "item")
               ELSE [@ EXCEPT !.pc = "c_delete"]]
  /\ UNCHANGED <<store, seqs, now, nreq, pathHist, counts>>

\* delete().eq("user_id", user.id); the result is not looked at
ClipDeleteOld(r) ==
  /\ req[r].kind = "setclip" /\ req[r].pc = "c_delete"
  /\ \E ok \in BOOLEAN :
       /\ faults' = (faults \/ ~ok)
       /\ clipboard' = IF ok THEN clipboard \ ClipOf(req[r].user) ELSE clipboard
       /\ req' = [req EXCEPT ![r].pc = "c_insert",
                             ![r].wrote = (ok /\ ClipOf(req[r].user) # {})]
  /\ UNCHANGED <<files, folders, perms, blobs, versions, logs, seqs, now, nreq,
                 pathHist, counts>>

ClipInsert(r) ==
  /\ req[r].kind = "setclip" /\ req[r].pc = "c_insert"
  /\ \E ok \in BOOLEAN :
       /\ faults' = (faults \/ ~ok)
       /\ IF ok
          THEN /\ clipboard' = clipboard \cup
                    {[id |-> nextClipId, user_id |-> req[r].user,
                      item_id |-> req[r].item, item_type |-> req[r].itemType,
                      operation |-> req[r].op]}
               /\ nextClipId' = nextClipId + 1
               /\ req' = [req EXCEPT ![r].pc = "c_log", ![r].wrote = TRUE]
          ELSE /\ req' = [req EXCEPT ![r] = Fail(r, 500, "insert")]
               /\ UNCHANGED <<clipboard, nextClipId>>
  /\ UNCHANGED <<files, folders, perms, blobs, versions, logs,
                 nextFileId, nextFolderId, nextPermId, nextToken, now, nreq,
                 pathHist, counts>>

ClipLog(r) ==
  /\ req[r].kind = "setclip" /\ req[r].pc = "c_log"
  /\ \E ok \in BOOLEAN : logs' = LogActivity(req[r].user, NULL, "clipboard", ok)
  /\ req' = [req EXCEPT ![r] = Respond(r, 200)]
  /\ UNCHANGED <<files, folders, perms, blobs, versions, clipboard, seqs, now, nreq,
                 ghost>>

SetClipboard(r) ==
  \/ ClipStart(r)
  \/ ClipCheckItem(r)
  \/ ClipDeleteOld(r)
  \/ ClipInsert(r)
  \/ ClipLog(r)

PasteStart(r) ==
  /\ ~Active(r)
  /\ nreq < MaxClipReqs
  /\ nreq' = nreq + 1
  /\ \E u \in Pasters, fp \in {NULL, MissingId} \cup {f.id : f \in folders} :
       req' = Arrive(r,
         [Idle EXCEPT !.kind = "paste", !.user = u, !.folder = fp, !.pc = "p_clip"])
  /\ UNCHANGED <<store, seqs, now, ghost>>

\* select("*").eq("user_id", user.id).single()
PasteReadClip(r) ==
  /\ req[r].kind = "paste" /\ req[r].pc = "p_clip"
  /\ \E ok \in BOOLEAN :
       /\ faults' = (faults \/ ~ok)
       /\ LET row == Single(ClipOf(req[r].user))
          IN req' = [req EXCEPT ![r] =
               IF ~ok \/ row = {} THEN Fail(r, 404, "clipboard empty")
               ELSE LET c == CHOOSE x \in row : TRUE
                    IN [@ EXCEPT !.clip = c,
                         !.pc = IF req[r].folder # NULL THEN "p_target"
                                ELSE IF c.item_type = "file"
                                THEN (IF c.operation = "cut" THEN "p_move" ELSE "p_orig")
                                ELSE (IF c.operation = "cut" THEN "p_fmove" ELSE "p_forig")]]
  /\ UNCHANGED <<store, seqs, now, nreq, pathHist, counts>>

PasteCheckTarget(r) ==
  /\ req[r].kind = "paste" /\ req[r].pc = "p_target"
  /\ \E ok \in BOOLEAN :
       /\ faults' = (faults \/ ~ok)
       /\ LET c == req[r].clip
          IN req' = [req EXCEPT ![r] =
               IF ~ok \/ LiveFolder(req[r].folder, req[r].user) = {}
               THEN Fail(r, 404, "target")
               ELSE [@ EXCEPT
                      !.pc = IF c.item_type = "file"
                             THEN (IF c.operation = "cut" THEN "p_move" ELSE "p_orig")
                             ELSE (IF c.operation = "cut" THEN "p_fmove" ELSE "p_forig")]]
  /\ UNCHANGED <<store, seqs, now, nreq, pathHist, counts>>

\* as PasteMoveFile, but the clipboard is cleared before the move is known to
\* have succeeded
PasteMoveFileClearsFirst(r) ==
  /\ req[r].kind = "paste" /\ req[r].pc = "p_move"
  /\ \E ok \in BOOLEAN :
       /\ faults' = (faults \/ ~ok)
       /\ clipboard' = {c \in clipboard : c.id # req[r].clip.id}
       /\ LET row == OwnFile(req[r].clip.item_id, req[r].user)
          IN IF ok /\ row # {}
             THEN /\ files' = {IF f \in row THEN [f EXCEPT !.folder_id = req[r].folder]
                               ELSE f : f \in files}
                  /\ req' = [req EXCEPT ![r].pc = "p_log", ![r].wrote = TRUE,
                                        ![r].fileId = req[r].clip.item_id]
             ELSE /\ req' = [req EXCEPT ![r] = [Fail(r, 500, "move") EXCEPT !.wrote = TRUE]]
                  /\ UNCHANGED files
  /\ UNCHANGED <<folders, perms, blobs, versions, logs, seqs, now, nreq,
                 pathHist, counts>>

\* cut file: update({ folder_id }).eq("id", item).eq("user_id", user).single()
PasteMoveFile(r) ==
  /\ req[r].kind = "paste" /\ req[r].pc = "p_move"
  /\ \E ok \in BOOLEAN :
       /\ faults' = (faults \/ ~ok)
       /\ LET row == OwnFile(req[r].clip.item_id, req[r].user)
          IN IF ok /\ row # {}
             THEN /\ files' = {IF f \in row THEN [f EXCEPT !.folder_id = req[r].folder]
                               ELSE f : f \in files}
                  /\ req' = [req EXCEPT ![r].pc = "p_clear",
                                        ![r].fileId = req[r].clip.item_id]
             ELSE /\ req' = [req EXCEPT ![r] = Fail(r, 500, "move")]
                  /\ UNCHANGED files
  /\ UNCHANGED <<folders, perms, blobs, versions, clipboard, logs, seqs, now, nreq,
                 pathHist, counts>>

\* cut folder: update({ parent_id }).eq("id", item).eq("user_id", user).single()
PasteMoveFolder(r) ==
  /\ req[r].kind = "paste" /\ req[r].pc = "p_fmove"
  /\ \E ok \in BOOLEAN :
       /\ faults' = (faults \/ ~ok)
       /\ LET row == OwnFolder(req[r].clip.item_id, req[r].user)
          IN IF ok /\ row # {}
             THEN /\ folders' = {IF f \in row THEN [f EXCEPT !.parent_id = req[r].folder]
                                 ELSE f : f \in folders}
                  /\ req' = [req EXCEPT ![r].pc = "p_clear"]
             ELSE /\ req' = [req EXCEPT ![r] = Fail(r, 500, "move")]
                  /\ UNCHANGED folders
  /\ UNCHANGED <<files, perms, blobs, versions, clipboard, logs, seqs, now, nreq,
                 pathHist, counts>>

\* as PasteClear, but every entry of the user is deleted
PasteClearByUser(r) ==
  /\ req[r].kind = "paste" /\ req[r].pc = "p_clear"
  /\ \E ok \in BOOLEAN :
       /\ faults' = (faults \/ ~ok)
       /\ clipboard' = IF ok THEN clipboard \ ClipOf(req[r].user) ELSE clipboard
       /\ req' = [req EXCEPT ![r].pc = "p_log", ![r].wrote = ok,
                             ![r].newer = (ClipOf(req[r].user) \ {req[r].clip} # {})]
  /\ UNCHANGED <<files, folders, perms, blobs, versions, logs, seqs, now, nreq,
                 pathHist, counts>>

\* clear the clipboard after a cut: delete().eq("id", clipboard.id); the
\* result is not looked at.  History: newer records whether the user had
\* another entry than the one read when the delete ran.
PasteClear(r) ==
  /\ req[r].kind = "paste" /\ req[r].pc = "p_clear"
  /\ \E ok \in BOOLEAN :
       /\ faults' = (faults \/ ~ok)
       /\ clipboard' = IF ok THEN {c \in clipboard : c.id # req[r].clip.id}
                       ELSE clipboard
       /\ req' = [req EXCEPT ![r].pc = "p_log", ![r].wrote = ok,
                             ![r].newer = (ClipOf(req[r].user) \ {req[r].clip} # {})]
  /\ UNCHANGED <<files, folders, perms, blobs, versions, logs, seqs, now, nreq,
                 pathHist, counts>>

\* copy file: the source row, .eq("id", item).eq("user_id", user).single()
PasteReadOriginal(r) ==
  /\ req[r].kind = "paste" /\ req[r].pc = "p_orig"
  /\ \E ok \in BOOLEAN :
       /\ faults' = (faults \/ ~ok)
       /\ LET row == OwnFile(req[r].clip.item_id, req[r].user)
          IN req' = [req EXCEPT ![r] =
               IF ~ok \/ row = {} THEN Fail(r, 404, "original")
               ELSE LET f == CHOOSE x \in row : TRUE
                    IN [@ EXCEPT !.pc = "p_download", !.name = f.name,
                                 !.newPath = f.path]]
  /\ UNCHANGED <<store, seqs, now, nreq, pathHist, counts>>

\* storage download of originalFile.path, then the new name and path
PasteDownload(r) ==
  /\ req[r].kind = "paste" /\ req[r].pc = "p_download"
  /\ \E ok \in BOOLEAN :
       /\ faults' = (faults \/ ~ok)
       /\ req' = [req EXCEPT ![r] =
            IF ok /\ req[r].newPath \in blobs
            THEN [@ EXCEPT !.pc = "p_upload", !.ts = now,
                           !.name = CopyName(req[r].name),
                           !.newPath = MainPath(req[r].user, now, CopyName(req[r].name))]
            ELSE Fail(r, 500, "download")]
  /\ UNCHANGED <<store, seqs, now, nreq, pathHist, counts>>

\* storage upload to newPath; an object already at the path is an error
PasteUpload(r) ==
  /\ req[r].kind = "paste" /\ req[r].pc = "p_upload"
  /\ \E ok \in BOOLEAN :
       /\ faults' = (faults \/ ~ok)
       /\ IF ok /\ req[r].newPath \notin blobs
          THEN /\ blobs' = blobs \cup {req[r].newPath}
               /\ req' = [req EXCEPT ![r].pc = "p_insert"]
          ELSE /\ req' = [req EXCEPT ![r] = Fail(r, 500, "upload")]
               /\ UNCHANGED blobs
  /\ UNCHANGED <<files, folders, perms, versions, clipboard, logs, seqs, now, nreq,
                 pathHist, counts>>

\* as PasteInsertFile, but a failed insert is answered before the blob is removed
PasteInsertFileAnswersFirst(r) ==
  /\ req[r].kind = "paste" /\ req[r].pc = "p_insert"
  /\ \E ok \in BOOLEAN :
       /\ faults' = (faults \/ ~ok)
       /\ IF ok
          THEN /\ files' = files \cup
                    {[id |-> nextFileId, name |-> req[r].name, path |-> req[r].newPath,
                      user_id |-> req[r].user, folder_id |-> req[r].folder,
                      deleted_at |-> NULL]}
               /\ nextFileId' = nextFileId + 1
               /\ req' = [req EXCEPT ![r].pc = "p_perm", ![r].fileId = nextFileId]
               /\ pathsUsed' = pathsUsed \cup {req[r].newPath}
               /\ pathsReused' = IF req[r].newPath \in pathsUsed
                                 THEN pathsReused \cup {req[r].newPath} ELSE pathsReused
          ELSE /\ req' = [req EXCEPT ![r] =
                         [Fail(r, 500, "insert") EXCEPT !.pc = "p_undo_blob"]]
               /\ UNCHANGED <<files, nextFileId, pathHist>>
  /\ UNCHANGED <<folders, perms, blobs, versions, clipboard, logs,
                 nextFolderId, nextPermId, nextClipId, nextToken, now, nreq, counts>>

PasteInsertFile(r) ==
  /\ req[r].kind = "paste" /\ req[r].pc = "p_insert"
  /\ \E ok \in BOOLEAN :
       /\ faults' = (faults \/ ~ok)
       /\ IF ok
          THEN /\ files' = files \cup
                    {[id |-> nextFileId, name |-> req[r].name, path |-> req[r].newPath,
                      user_id |-> req[r].user, folder_id |-> req[r].folder,
                      deleted_at |-> NULL]}
               /\ nextFileId' = nextFileId + 1
               /\ req' = [req EXCEPT ![r].pc = "p_perm", ![r].fileId = nextFileId]
               /\ pathsUsed' = pathsUsed \cup {req[r].newPath}
               /\ pathsReused' = IF req[r].newPath \in pathsUsed
                                 THEN pathsReused \cup {req[r].newPath} ELSE pathsReused
          ELSE /\ req' = [req EXCEPT ![r].pc = "p_undo_blob"]
               /\ UNCHANGED <<files, nextFileId, pathHist>>
  /\ UNCHANGED <<folders, perms, blobs, versions, clipboard, logs,
                 nextFolderId, nextPermId, nextClipId, nextToken, now, nreq, counts>>

\* the file insert failed: remove([newPath]), result not looked at
PasteUndoBlob(r) ==
  /\ req[r].kind = "paste" /\ req[r].pc = "p_undo_blob"
  /\ \E ok \in BOOLEAN :
       /\ faults' = (faults \/ ~ok)
       /\ blobs' = IF ok THEN blobs \ {req[r].newPath} ELSE blobs
       /\ req' = [req EXCEPT ![r] =
            [Fail(r, 500, "insert") EXCEPT !.compOk = ok]]
  /\ UNCHANGED <<files, folders, perms, versions, clipboard, logs, seqs, now, nreq,
                 pathHist, counts>>

\* as PasteInsertPerm, but the clipboard is cleared after a copy as well
PasteInsertPermThenClear(r) ==
  /\ req[r].kind = "paste" /\ req[r].pc = "p_perm"
  /\ \E ok \in BOOLEAN :
       /\ faults' = (faults \/ ~ok)
       /\ perms' = IF ok
            THEN perms \cup
                   {PermRow(nextPermId, req[r].fileId, req[r].user, "owner", UuidV4)}
            ELSE perms
       /\ nextPermId' = IF ok THEN nextPermId + 1 ELSE nextPermId
       /\ nextToken' = IF ok THEN nextToken + 1 ELSE nextToken
  /\ req' = [req EXCEPT ![r].pc = "p_clear"]
  /\ UNCHANGED <<files, folders, blobs, versions, clipboard, logs,
                 nextFileId, nextFolderId, nextClipId, now, nreq, pathHist, counts>>

\* owner permission of the new file; the result of the insert is not looked at
PasteInsertPerm(r) ==
  /\ req[r].kind = "paste" /\ req[r].pc = "p_perm"
  /\ \E ok \in BOOLEAN :
       /\ faults' = (faults \/ ~ok)
       /\ perms' = IF ok
            THEN perms \cup
                   {PermRow(nextPermId, req[r].fileId, req[r].user, "owner", UuidV4)}
            ELSE perms
       /\ nextPermId' = IF ok THEN nextPermId + 1 ELSE nextPermId
       /\ nextToken' = IF ok THEN nextToken + 1 ELSE nextToken
  /\ req' = [req EXCEPT ![r].pc = "p_log"]
  /\ UNCHANGED <<files, folders, blobs, versions, clipboard, logs,
                 nextFileId, nextFolderId, nextClipId, now, nreq, pathHist, counts>>

\* copy folder: the source row
PasteReadFolder(r) ==
  /\ req[r].kind = "paste" /\ req[r].pc = "p_forig"
  /\ \E ok \in BOOLEAN :
       /\ faults' = (faults \/ ~ok)
       /\ LET row == OwnFolder(req[r].clip.item_id, req[r].user)
          IN req' = [req EXCEPT ![r] =
               IF ~ok \/ row = {} THEN Fail(r, 404, "original")
               ELSE LET f == CHOOSE x \in row : TRUE
                    IN [@ EXCEPT !.pc = "p_finsert",
                                 !.name = f.name \o <<" ", "-", " ", "C", "o", "p", "y">>]]
  /\ UNCHANGED <<store, seqs, now, nreq, pathHist, counts>>

\* as PasteInsertFolder, but the child folders of the source are put under
\* the new folder
PasteInsertFolderDeep(r) ==
  /\ req[r].kind = "paste" /\ req[r].pc = "p_finsert"
  /\ \E ok \in BOOLEAN :
       /\ faults' = (faults \/ ~ok)
       /\ IF ok
          THEN /\ folders' =
                    {IF f.parent_id = req[r].clip.item_id
                     THEN [f EXCEPT !.parent_id = nextFolderId] ELSE f : f \in folders}
                    \cup
                    {[id |-> nextFolderId, name |-> req[r].name,
                      user_id |-> req[r].user, parent_id |-> req[r].folder,
                      deleted_at |-> NULL]}
               /\ nextFolderId' = nextFolderId + 1
               /\ req' = [req EXCEPT ![r].pc = "p_log"]
          ELSE /\ req' = [req EXCEPT ![r] = Fail(r, 500, "insert")]
               /\ UNCHANGED <<folders, nextFolderId>>
  /\ UNCHANGED <<files, perms, blobs, versions, clipboard, logs,
                 nextFileId, nextPermId, nextClipId, nextToken, now, nreq,
                 pathHist, counts>>

\* copy folder: one new folders row, the children are not copied
PasteInsertFolder(r) ==
  /\ req[r].kind = "paste" /\ req[r].pc = "p_finsert"
  /\ \E ok \in BOOLEAN :
       /\ faults' = (faults \/ ~ok)
       /\ IF ok
          THEN /\ folders' = folders \cup
                    {[id |-> nextFolderId, name |-> req[r].name,
                      user_id |-> req[r].user, parent_id |-> req[r].folder,
                      deleted_at |-> NULL]}
               /\ nextFolderId' = nextFolderId + 1
               /\ req' = [req EXCEPT ![r].pc = "p_log"]
          ELSE /\ req' = [req EXCEPT ![r] = Fail(r, 500, "insert")]
               /\ UNCHANGED <<folders, nextFolderId>>
  /\ UNCHANGED <<files, perms, blobs, versions, clipboard, logs,
                 nextFileId, nextPermId, nextClipId, nextToken, now, nreq,
                 pathHist, counts>>

\* logActivity, then res.json({ message, item, operation })
PasteLog(r) ==
  /\ req[r].kind = "paste" /\ req[r].pc = "p_log"
  /\ \E ok \in BOOLEAN : logs' = LogActivity(req[r].user, req[r].fileId, "paste", ok)
  /\ req' = [req EXCEPT ![r] = Respond(r, 200)]
  /\ copies' = IF req[r].clip.item_type = "file" /\ req[r].clip.operation = "copy"
               THEN copies + 1 ELSE copies
  /\ UNCHANGED <<files, folders, perms, blobs, versions, clipboard, seqs, now, nreq,
                 pathHist, served, faults>>

Paste(r) ==
  \/ PasteStart(r)
  \/ PasteReadClip(r)
  \/ PasteCheckTarget(r)
  \/ PasteMoveFile(r)
  \/ PasteMoveFolder(r)
  \/ PasteClear(r)
  \/ PasteReadOriginal(r)
  \/ PasteDownload(r)
  \/ PasteUpload(r)
  \/ PasteInsertFile(r)
  \/ PasteUndoBlob(r)
  \/ PasteInsertPerm(r)
  \/ PasteReadFolder(r)
  \/ PasteInsertFolder(r)
  \/ PasteLog(r)

\* as ClearClipboard, but the delete is not filtered by user_id
ClearClipboardAll(r) ==
  /\ ~Active(r)
  /\ nreq < MaxClipReqs
  /\ nreq' = nreq + 1
  /\ \E u \in Pasters, ok \in BOOLEAN :
       /\ faults' = (faults \/ ~ok)
       /\ clipboard' = IF ok THEN {} ELSE clipboard
       /\ req' = Arrive(r,
            [Idle EXCEPT !.kind = "clear", !.user = u, !.pc = "done",
                         !.status = IF ok THEN 200 ELSE 500])
  /\ UNCHANGED <<files, folders, perms, blobs, versions, logs, seqs, now,
                 pathHist, counts>>

\* DELETE /clipboard/clear
ClearClipboard(r) ==
  /\ ~Active(r)
  /\ nreq < MaxClipReqs
  /\ nreq' = nreq + 1
  /\ \E u \in Pasters, ok \in BOOLEAN :
       /\ faults' = (faults \/ ~ok)
       /\ clipboard' = IF ok THEN clipboard \ ClipOf(u) ELSE clipboard
       /\ req' = Arrive(r,
            [Idle EXCEPT !.kind = "clear", !.user = u, !.pc = "done",
                         !.status = IF ok THEN 200 ELSE 500])
  /\ UNCHANGED <<files, folders, perms, blobs, versions, logs, seqs, now,
                 pathHist, counts>>

(***************************************************************************)
(* The store of the clipboard specifications: user 1 owns file 1 (live,    *)
(* in the root) and folders 1 and 3, user 2 owns file 2 and folder 2.      *)
(***************************************************************************)
ClipPath1 == MainPath(1, 1, NameSp)
ClipPath2 == MainPath(2, 1, NameSp)

InitClip ==
  /\ InitCommon
  /\ files = {[id |-> 1, name |-> NameSp, path |-> ClipPath1, user_id |-> 1,
               folder_id |-> NULL, deleted_at |-> NULL],
              [id |-> 2, name |-> NameSp, path |-> ClipPath2, user_id |-> 2,
               folder_id |-> NULL, deleted_at |-> NULL]}
  /\ folders = InitFolders
  /\ perms = {PermRow(1, 1, 1, "owner", 1), PermRow(2, 2, 2, "owner", 2)}
  /\ blobs = {ClipPath1, ClipPath2}
  /\ versions = {}
  /\ clipboard = {}
  /\ nextFileId = 3
  /\ nextFolderId = 4
  /\ nextPermId = 3
  /\ nextClipId = 1
  /\ nextToken = 3

Clip(r) == SetClipboard(r) \/ Paste(r) \/ ClearClipboard(r)

NextClip == Tick \/ \E r \in Slots : Clip(r)

SpecClip == InitClip /\ [][NextClip]_vars

\* requests are issued one after another: a request arrives only when no
\* other is being handled
NextClipSeq ==
  \/ Tick
  \/ \E r \in Slots :
       \/ Quiet /\ ClipStart(r)
       \/ Quiet /\ PasteStart(r)
       \/ Quiet /\ ClearClipboard(r)
       \/ ClipCheckItem(r)
       \/ ClipDeleteOld(r)
       \/ ClipInsert(r)
       \/ ClipLog(r)
       \/ PasteReadClip(r)
       \/ PasteCheckTarget(r)
       \/ PasteMoveFile(r)
       \/ PasteMoveFolder(r)
       \/ PasteClear(r)
       \/ PasteReadOriginal(r)
       \/ PasteDownload(r)
       \/ PasteUpload(r)
       \/ PasteInsertFile(r)
       \/ PasteUndoBlob(r)
       \/ PasteInsertPerm(r)
       \/ PasteReadFolder(r)
       \/ PasteInsertFolder(r)
       \/ PasteLog(r)

SpecClipSeq == InitClip /\ [][NextClipSeq]_vars

(***************************************************************************)
(* The folder routes (routes/folders.ts).                                  *)
(***************************************************************************)
TreeUsers == {1}
NewName == <<"b">>

FolderIds == {f.id : f \in folders}

\* POST /folders/create: name and parent_id of the body
FolderCreateStart(r) ==
  /\ ~Active(r)
  /\ nreq < MaxTreeReqs
  /\ nreq' = nreq + 1
  /\ \E u \in TreeUsers, hasName \in BOOLEAN, pid \in {NULL} \cup FolderIds :
       req' = Arrive(r,
         IF ~hasName THEN Early("folderCreate", 400)
         ELSE [Idle EXCEPT !.kind = "folderCreate", !.user = u, !.name = NewName,
                           !.folder = pid,
                           !.pc = IF pid # NULL THEN "fc_parent" ELSE "fc_insert"])
  /\ UNCHANGED <<store, seqs, now, ghost>>

\* the parent must exist, be live and belong to the user
FolderCreateCheckParent(r) ==
  /\ req[r].kind = "folderCreate" /\ req[r].pc = "fc_parent"
  /\ \E ok \in BOOLEAN :
       /\ faults' = (faults \/ ~ok)
       /\ req' = [req EXCEPT ![r] =
            IF ~ok \/ LiveFolder(req[r].folder, req[r].user) = {}
            THEN Fail(r, 404, "parent")
            ELSE [@ EXCEPT !.pc = "fc_insert"]]
  /\ UNCHANGED <<store, seqs, now, nreq, pathHist, counts>>

FolderCreateInsert(r) ==
  /\ req[r].kind = "folderCreate" /\ req[r].pc = "fc_insert"
  /\ \E ok \in BOOLEAN :
       /\ faults' = (faults \/ ~ok)
       /\ IF ok
          THEN /\ folders' = folders \cup
                    {[id |-> nextFolderId, name |-> req[r].name,
                      user_id |-> req[r].user, parent_id |-> req[r].folder,
                      deleted_at |-> NULL]}
               /\ nextFolderId' = nextFolderId + 1
               /\ req' = [req EXCEPT ![r] = [Respond(r, 201) EXCEPT !.item = nextFolderId]]
          ELSE /\ req' = [req EXCEPT ![r] = Fail(r, 500, "insert")]
               /\ UNCHANGED <<folders, nextFolderId>>
  /\ UNCHANGED <<files, perms, blobs, versions, clipboard, logs,
                 nextFileId, nextPermId, nextClipId, nextToken, now, nreq,
                 pathHist, counts>>

FolderCreate(r) ==
  \/ FolderCreateStart(r)
  \/ FolderCreateCheckParent(r)
  \/ FolderCreateInsert(r)

\* DELETE /folders/:folderId
FolderDeleteStart(r) ==
  /\ ~Active(r)
  /\ nreq < MaxDeletes
  /\ nreq' = nreq + 1
  /\ \E u \in TreeUsers, id \in FolderIds \cup {MissingId} :
       req' = Arrive(r,
         [Idle EXCEPT !.kind = "folderDelete", !.user = u, !.item = id,
                      !.pc = "fd_folder"])
  /\ UNCHANGED <<store, seqs, now, ghost>>

\* the folder must exist, be live and belong to the user
FolderDeleteCheck(r) ==
  /\ req[r].kind = "folderDelete" /\ req[r].pc = "fd_folder"
  /\ \E ok \in BOOLEAN :
       /\ faults' = (faults \/ ~ok)
       /\ req' = [req EXCEPT ![r] =
            IF ~ok \/ LiveFolder(req[r].item, req[r].user) = {}
            THEN Fail(r, 404, "folder")
            ELSE [@ EXCEPT !.pc = "fd_subfolders"]]
  /\ UNCHANGED <<store, seqs, now, nreq, pathHist, counts>>

\* select("id").eq("parent_id", folderId).is("deleted_at", null)
LiveSubfolders(id) == {f \in folders : f.parent_id = id /\ f.deleted_at = NULL}

\* select("id").eq("folder_id", folderId).is("deleted_at", null)
LiveFilesIn(id) == {f \in files : f.folder_id = id /\ f.deleted_at = NULL}

FolderDeleteReadSubfolders(r) ==
  /\ req[r].kind = "folderDelete" /\ req[r].pc = "fd_subfolders"
  /\ \E ok \in BOOLEAN :
       /\ faults' = (faults \/ ~ok)
       /\ req' = [req EXCEPT ![r] =
            IF ~ok THEN Fail(r, 500, "subfolders")
            ELSE [@ EXCEPT !.pc = "fd_files",
                           !.kids = (LiveSubfolders(req[r].item) # {})]]
  /\ UNCHANGED <<store, seqs, now, nreq, pathHist, counts>>

\* as FolderDeleteReadFiles, but only the subfolders count as children
FolderDeleteReadFilesIgnored(r) ==
  /\ req[r].kind = "folderDelete" /\ req[r].pc = "fd_files"
  /\ \E ok \in BOOLEAN :
       /\ faults' = (faults \/ ~ok)
       /\ req' = [req EXCEPT ![r] =
            IF ~ok THEN Fail(r, 500, "files")
            ELSE IF req[r].kids
            THEN Fail(r, 400, "children")
            ELSE [@ EXCEPT !.pc = "fd_update"]]
  /\ UNCHANGED <<store, seqs, now, nreq, pathHist, counts>>

FolderDeleteReadFiles(r) ==
  /\ req[r].kind = "folderDelete" /\ req[r].pc = "fd_files"
  /\ \E ok \in BOOLEAN :
       /\ faults' = (faults \/ ~ok)
       /\ req' = [req EXCEPT ![r] =
            IF ~ok THEN Fail(r, 500, "files")
            ELSE IF req[r].kids \/ LiveFilesIn(req[r].item) # {}
            THEN Fail(r, 400, "children")
            ELSE [@ EXCEPT !.pc = "fd_update"]]
  /\ UNCHANGED <<store, seqs, now, nreq, pathHist, counts>>

\* update({ deleted_at: new Date() }).eq("id", folderId)
FolderDeleteUpdate(r) ==
  /\ req[r].kind = "folderDelete" /\ req[r].pc = "fd_update"
  /\ \E ok \in BOOLEAN :
       /\ faults' = (faults \/ ~ok)
       /\ folders' = IF ok
            THEN {IF f.id = req[r].item THEN [f EXCEPT !.deleted_at = now] ELSE f :
                  f \in folders}
            ELSE folders
       /\ req' = [req EXCEPT ![r] =
            IF ok THEN Respond(r, 200) ELSE Fail(r, 500, "update")]
  /\ UNCHANGED <<files, perms, blobs, versions, clipboard, logs, seqs, now, nreq,
                 pathHist, counts>>

FolderDelete(r) ==
  \/ FolderDeleteStart(r)
  \/ FolderDeleteCheck(r)
  \/ FolderDeleteReadSubfolders(r)
  \/ FolderDeleteReadFiles(r)
  \/ FolderDeleteUpdate(r)

\* PATCH /folders/:folderId: name and parent_id of the body
FolderUpdateStart(r) ==
  /\ ~Active(r)
  /\ nreq < MaxTreeReqs
  /\ nreq' = nreq + 1
  /\ \E u \in TreeUsers, id \in FolderIds, hasName \in BOOLEAN,
        pid \in {Undefined, NULL} \cup FolderIds :
       /\ hasName => pid = Undefined
       /\ req' = Arrive(r,
         IF ~hasName /\ pid \in {Undefined, NULL}
         THEN Early("folderUpdate", 400)
         ELSE [Idle EXCEPT !.kind = "folderUpdate", !.user = u, !.item = id,
                           !.name = IF hasName THEN NewName ELSE <<>>,
                           !.folder = pid, !.pc = "fu_folder"])
  /\ UNCHANGED <<store, seqs, now, ghost>>

\* the folder must exist, be live and belong to the user; it may not be
\* made its own parent
FolderUpdateCheck(r) ==
  /\ req[r].kind = "folderUpdate" /\ req[r].pc = "fu_folder"
  /\ \E ok \in BOOLEAN :
       /\ faults' = (faults \/ ~ok)
       /\ req' = [req EXCEPT ![r] =
            IF ~ok \/ LiveFolder(req[r].item, req[r].user) = {}
            THEN Fail(r, 404, "folder")
            ELSE IF req[r].folder \in {Undefined, NULL}
            THEN [@ EXCEPT !.pc = "fu_update"]
            ELSE IF req[r].folder = req[r].item
            THEN Fail(r, 400, "own parent")
            ELSE [@ EXCEPT !.pc = "fu_parent"]]
  /\ UNCHANGED <<store, seqs, now, nreq, pathHist, counts>>

FolderUpdateCheckParent(r) ==
  /\ req[r].kind = "folderUpdate" /\ req[r].pc = "fu_parent"
  /\ \E ok \in BOOLEAN :
       /\ faults' = (faults \/ ~ok)
       /\ req' = [req EXCEPT ![r] =
            IF ~ok \/ LiveFolder(req[r].folder, req[r].user) = {}
            THEN Fail(r, 404, "parent")
            ELSE [@ EXCEPT !.pc = "fu_update"]]
  /\ UNCHANGED <<store, seqs, now, nreq, pathHist, counts>>

\* update(updates).eq("id", folderId).single()
FolderUpdateWrite(r) ==
  /\ req[r].kind = "folderUpdate" /\ req[r].pc = "fu_update"
  /\ \E ok \in BOOLEAN :
       /\ faults' = (faults \/ ~ok)
       /\ LET row == {f \in folders : f.id = req[r].item}
          IN IF ok /\ row # {}
             THEN /\ folders' =
                       {IF f \in row
                        THEN [f EXCEPT
                               !.name = IF req[r].name # <<>> THEN req[r].name ELSE @,
                               !.parent_id = IF req[r].folder # Undefined
                                             THEN req[r].folder ELSE @]
                        ELSE f : f \in folders}
                  /\ req' = [req EXCEPT ![r] = Respond(r, 200)]
             ELSE /\ req' = [req EXCEPT ![r] = Fail(r, 500, "update")]
                  /\ UNCHANGED folders
  /\ UNCHANGED <<files, perms, blobs, versions, clipboard, logs, seqs, now, nreq,
                 pathHist, counts>>

FolderUpdate(r) ==
  \/ FolderUpdateStart(r)
  \/ FolderUpdateCheck(r)
  \/ FolderUpdateCheckParent(r)
  \/ FolderUpdateWrite(r)

(***************************************************************************)
(* The file delete and update routes (routes/files.ts).                    *)
(***************************************************************************)
FileIds == {f.id : f \in files}

\* permissions select by file_id, user_id and role "owner", .single()
OwnerPermOf(fid, u) ==
  Single({p \in perms : p.file_id = fid /\ p.user_id = u /\ p.role = "owner"})

\* DELETE /files/:fileId
FileDeleteStart(r) ==
  /\ ~Active(r)
  /\ nreq < MaxDeletes
  /\ nreq' = nreq + 1
  /\ \E u \in Users, id \in FileIds :
       req' = Arrive(r,
         [Idle EXCEPT !.kind = "fileDelete", !.user = u, !.fileId = id,
                      !.pc = "xd_perm"])
  /\ UNCHANGED <<store, seqs, now, ghost>>

FileDeleteCheckPerm(r) ==
  /\ req[r].kind = "fileDelete" /\ req[r].pc = "xd_perm"
  /\ \E ok \in BOOLEAN :
       /\ faults' = (faults \/ ~ok)
       /\ req' = [req EXCEPT ![r] =
            IF ~ok \/ OwnerPermOf(req[r].fileId, req[r].user) = {}
            THEN Fail(r, 403, "owner")
            ELSE [@ EXCEPT !.pc = "xd_file"]]
  /\ UNCHANGED <<store, seqs, now, nreq, pathHist, counts>>

\* select("name").eq("id", fileId).single()
FileDeleteReadFile(r) ==
  /\ req[r].kind = "fileDelete" /\ req[r].pc = "xd_file"
  /\ \E ok \in BOOLEAN :
       /\ faults' = (faults \/ ~ok)
       /\ req' = [req EXCEPT ![r] =
            IF ~ok \/ {f \in files : f.id = req[r].fileId} = {}
            THEN Fail(r, 404, "file")
            ELSE [@ EXCEPT !.pc = "xd_update"]]
  /\ UNCHANGED <<store, seqs, now, nreq, pathHist, counts>>

\* as FileDeleteUpdate, but the blob of the file is removed as well
FileDeleteUpdateReaping(r) ==
  /\ req[r].kind = "fileDelete" /\ req[r].pc = "xd_update"
  /\ \E ok \in BOOLEAN :
       /\ faults' = (faults \/ ~ok)
       /\ files' = IF ok
            THEN {IF f.id = req[r].fileId THEN [f EXCEPT !.deleted_at = now] ELSE f :
                  f \in files}
            ELSE files
       /\ blobs' = IF ok THEN blobs \ {f.path : f \in {g \in files : g.id = req[r].fileId}}
                   ELSE blobs
       /\ req' = [req EXCEPT ![r] =
            IF ok THEN [@ EXCEPT !.pc = "xd_log"] ELSE Fail(r, 500, "update")]
  /\ UNCHANGED <<folders, perms, versions, clipboard, logs, seqs, now, nreq,
                 pathHist, counts>>

\* update({ deleted_at: new Date() }).eq("id", fileId)
FileDeleteUpdate(r) ==
  /\ req[r].kind = "fileDelete" /\ req[r].pc = "xd_update"
  /\ \E ok \in BOOLEAN :
       /\ faults' = (faults \/ ~ok)
       /\ files' = IF ok
            THEN {IF f.id = req[r].fileId THEN [f EXCEPT !.deleted_at = now] ELSE f :
                  f \in files}
            ELSE files
       /\ req' = [req EXCEPT ![r] =
            IF ok THEN [@ EXCEPT !.pc = "xd_log"] ELSE Fail(r, 500, "update")]
  /\ UNCHANGED <<folders, perms, blobs, versions, clipboard, logs, seqs, now, nreq,
                 pathHist, counts>>

FileDeleteLog(r) ==
  /\ req[r].kind = "fileDelete" /\ req[r].pc = "xd_log"
  /\ \E ok \in BOOLEAN : logs' = LogActivity(req[r].user, req[r].fileId, "delete", ok)
  /\ req' = [req EXCEPT ![r] = Respond(r, 200)]
  /\ UNCHANGED <<files, folders, perms, blobs, versions, clipboard, seqs, now, nreq,
                 ghost>>

FileDelete(r) ==
  \/ FileDeleteStart(r)
  \/ FileDeleteCheckPerm(r)
  \/ FileDeleteReadFile(r)
  \/ FileDeleteUpdate(r)
  \/ FileDeleteLog(r)

\* PATCH /files/:fileId: name and folder_id of the body
FilePatchStart(r) ==
  /\ ~Active(r)
  /\ nreq < MaxTreeReqs
  /\ nreq' = nreq + 1
  /\ \E u \in TreeUsers, id \in FileIds, hasName \in BOOLEAN,
        fid \in {Undefined, NULL} \cup FolderIds :
       /\ hasName => fid = Undefined
       /\ req' = Arrive(r,
         IF ~hasName /\ fid \in {Undefined, NULL}
         THEN Early("filePatch", 400)
         ELSE [Idle EXCEPT !.kind = "filePatch", !.user = u, !.fileId = id,
                           !.name = IF hasName THEN NewName ELSE <<>>,
                           !.folder = fid, !.pc = "xp_perm"])
  /\ UNCHANGED <<store, seqs, now, ghost>>

FilePatchCheckPerm(r) ==
  /\ req[r].kind = "filePatch" /\ req[r].pc = "xp_perm"
  /\ \E ok \in BOOLEAN :
       /\ faults' = (faults \/ ~ok)
       /\ req' = [req EXCEPT ![r] =
            IF ~ok \/ OwnerPermOf(req[r].fileId, req[r].user) = {}
            THEN Fail(r, 403, "owner")
            ELSE [@ EXCEPT !.pc = IF req[r].folder \in {Undefined, NULL}
                                  THEN "xp_file" ELSE "xp_folder"]]
  /\ UNCHANGED <<store, seqs, now, nreq, pathHist, counts>>

FilePatchCheckFolder(r) ==
  /\ req[r].kind = "filePatch" /\ req[r].pc = "xp_folder"
  /\ \E ok \in BOOLEAN :
       /\ faults' = (faults \/ ~ok)
       /\ req' = [req EXCEPT ![r] =
            IF ~ok \/ LiveFolder(req[r].folder, req[r].user) = {}
            THEN Fail(r, 404, "folder")
            ELSE [@ EXCEPT !.pc = "xp_file"]]
  /\ UNCHANGED <<store, seqs, now, nreq, pathHist, counts>>

FilePatchReadFile(r) ==
  /\ req[r].kind = "filePatch" /\ req[r].pc = "xp_file"
  /\ \E ok \in BOOLEAN :
       /\ faults' = (faults \/ ~ok)
       /\ req' = [req EXCEPT ![r] =
            IF ~ok \/ {f \in files : f.id = req[r].fileId} = {}
            THEN Fail(r, 404, "file")
            ELSE [@ EXCEPT !.pc = "xp_update"]]
  /\ UNCHANGED <<store, seqs, now, nreq, pathHist, counts>>

\* update(updates).eq("id", fileId).single()
FilePatchWrite(r) ==
  /\ req[r].kind = "filePatch" /\ req[r].pc = "xp_update"
  /\ \E ok \in BOOLEAN :
       /\ faults' = (faults \/ ~ok)
       /\ LET row == {f \in files : f.id = req[r].fileId}
          IN IF ok /\ row # {}
             THEN /\ files' =
                       {IF f \in row
                        THEN [f EXCEPT
                               !.name = IF req[r].name # <<>> THEN req[r].name ELSE @,
                               !.folder_id = IF req[r].folder # Undefined
                                             THEN req[r].folder ELSE @]
                        ELSE f : f \in files}
                  /\ req' = [req EXCEPT ![r].pc = "xp_log"]
             ELSE /\ req' = [req EXCEPT ![r] = Fail(r, 500, "update")]
                  /\ UNCHANGED files
  /\ UNCHANGED <<folders, perms, blobs, versions, clipboard, logs, seqs, now, nreq,
                 pathHist, counts>>

FilePatchLog(r) ==
  /\ req[r].kind = "filePatch" /\ req[r].pc = "xp_log"
  /\ \E ok \in BOOLEAN : logs' = LogActivity(req[r].user, req[r].fileId, "update", ok)
  /\ req' = [req EXCEPT ![r] = Respond(r, 200)]
  /\ UNCHANGED <<files, folders, perms, blobs, versions, clipboard, seqs, now, nreq,
                 ghost>>

FilePatch(r) ==
  \/ FilePatchStart(r)
  \/ FilePatchCheckPerm(r)
  \/ FilePatchCheckFolder(r)
  \/ FilePatchReadFile(r)
  \/ FilePatchWrite(r)
  \/ FilePatchLog(r)

(***************************************************************************)
(* The folder parent relation.                                             *)
(***************************************************************************)
ParentOf(id) ==
  IF \E f \in folders : f.id = id
  THEN (CHOOSE f \in folders : f.id = id).parent_id
  ELSE NULL

\* the folders met when following parent references from id for n steps,
\* id included
RECURSIVE Climb(_, _)
Climb(id, n) ==
  IF id = NULL \/ n = 0 THEN {} ELSE {id} \cup Climb(ParentOf(id), n - 1)

Chain(id) == Climb(id, Cardinality(folders))

\* following parent references from id reaches a root within n steps
RECURSIVE ReachesRoot(_, _)
ReachesRoot(id, n) ==
  IF id = NULL THEN TRUE
  ELSE IF n = 0 THEN FALSE
  ELSE ReachesRoot(ParentOf(id), n - 1)

Acyclic == \A f \in folders : ReachesRoot(f.id, Cardinality(folders))

(***************************************************************************)
(* The store of the folder specifications: user 1 owns folder 1 (root),    *)
(* folder 2 inside folder 1 and file 1 inside folder 2; user 2 owns        *)
(* folder 3.                                                               *)
(***************************************************************************)
TreePath1 == MainPath(1, 1, NameSp)

InitTree ==
  /\ InitCommon
  /\ files = {[id |-> 1, name |-> NameSp, path |-> TreePath1, user_id |-> 1,
               folder_id |-> 2, deleted_at |-> NULL]}
  /\ folders = {FolderRow(1, 1, NULL, NULL), FolderRow(2, 1, 1, NULL),
                FolderRow(3, 2, NULL, NULL)}
  /\ perms = {PermRow(1, 1, 1, "owner", 1)}
  /\ blobs = {TreePath1, VersionPath(1, 1, NameSp)}
  /\ versions = {[file_id |-> 1, version_number |-> 1,
                  path |-> VersionPath(1, 1, NameSp), created_by |-> 1]}
  /\ clipboard = {}
  /\ nextFileId = 2
  /\ nextFolderId = 4
  /\ nextPermId = 2
  /\ nextClipId = 1
  /\ nextToken = 2

\* folder create, folder update, SetClipboard and Paste, the requests issued
\* one after another
NextMoveSeq ==
  \/ Tick
  \/ \E r \in Slots :
       \/ Quiet /\ FolderCreateStart(r)
       \/ Quiet /\ FolderUpdateStart(r)
       \/ Quiet /\ ClipStart(r)
       \/ Quiet /\ PasteStart(r)
       \/ FolderCreateCheckParent(r)
       \/ FolderCreateInsert(r)
       \/ FolderUpdateCheck(r)
       \/ FolderUpdateCheckParent(r)
       \/ FolderUpdateWrite(r)
       \/ ClipCheckItem(r)
       \/ ClipDeleteOld(r)
       \/ ClipInsert(r)
       \/ ClipLog(r)
       \/ PasteReadClip(r)
       \/ PasteCheckTarget(r)
       \/ PasteMoveFile(r)
       \/ PasteMoveFolder(r)
       \/ PasteClear(r)
       \/ PasteReadOriginal(r)
       \/ PasteDownload(r)
       \/ PasteUpload(r)
       \/ PasteInsertFile(r)
       \/ PasteUndoBlob(r)
       \/ PasteInsertPerm(r)
       \/ PasteReadFolder(r)
       \/ PasteInsertFolder(r)
       \/ PasteLog(r)

SpecMoveSeq == InitTree /\ [][NextMoveSeq]_vars

\* folder and file soft delete together with the operations that put a
\* child into a folder
NextDelete ==
  \/ Tick
  \/ \E r \in Slots :
       FolderDelete(r) \/ FileDelete(r) \/ FilePatch(r) \/ FolderCreate(r) \/ FolderUpdate(r)

SpecDelete == InitTree /\ [][NextDelete]_vars

\* the same, the requests issued one after another
NextDeleteSeq ==
  \/ Tick
  \/ \E r \in Slots :
       \/ Quiet /\ FolderDeleteStart(r)
       \/ Quiet /\ FileDeleteStart(r)
       \/ Quiet /\ FilePatchStart(r)
       \/ Quiet /\ FolderCreateStart(r)
       \/ Quiet /\ FolderUpdateStart(r)
       \/ FolderDeleteCheck(r)
       \/ FolderDeleteReadSubfolders(r)
       \/ FolderDeleteReadFiles(r)
       \/ FolderDeleteUpdate(r)
       \/ FileDeleteCheckPerm(r)
       \/ FileDeleteReadFile(r)
       \/ FileDeleteUpdate(r)
       \/ FileDeleteLog(r)
       \/ FilePatchCheckPerm(r)
       \/ FilePatchCheckFolder(r)
       \/ FilePatchReadFile(r)
       \/ FilePatchWrite(r)
       \/ FilePatchLog(r)
       \/ FolderCreateCheckParent(r)
       \/ FolderCreateInsert(r)
       \/ FolderUpdateCheck(r)
       \/ FolderUpdateCheckParent(r)
       \/ FolderUpdateWrite(r)

SpecDeleteSeq == InitTree /\ [][NextDeleteSeq]_vars

(***************************************************************************)
(* Upload and the clipboard routes on an empty store, with a clock that    *)
(* gives every request reading it a timestamp of its own: Date.now() is    *)
(* read only when no File row and no request being handled carries the     *)
(* current time.  Requests are issued one after another.                   *)
(***************************************************************************)
ClockFresh ==
  /\ \A f \in files : f.path.ts # now
  /\ \A s \in Slots : Active(s) => req[s].ts # now

NextPaths ==
  \/ Tick
  \/ \E r \in Slots :
       \/ Quiet /\ ClockFresh /\ UploadStart(r)
       \/ ClockFresh /\ UploadFolderCheck(r)
       \/ UploadInsertFile(r)
       \/ UploadPutMain(r)
       \/ UploadUndoRow(r)
       \/ UploadPutVersion(r)
       \/ UploadInsertPerm(r)
       \/ UploadRbMain(r)
       \/ UploadRbVersion(r)
       \/ UploadRbRow(r)
       \/ UploadInsertVersion(r)
       \/ UploadLog(r)
       \/ Quiet /\ ClipStart(r)
       \/ ClipCheckItem(r)
       \/ ClipDeleteOld(r)
       \/ ClipInsert(r)
       \/ ClipLog(r)
       \/ Quiet /\ PasteStart(r)
       \/ PasteReadClip(r)
       \/ PasteCheckTarget(r)
       \/ PasteMoveFile(r)
       \/ PasteMoveFolder(r)
       \/ PasteClear(r)
       \/ PasteReadOriginal(r)
       \/ ClockFresh /\ PasteDownload(r)
       \/ PasteUpload(r)
       \/ PasteInsertFile(r)
       \/ PasteUndoBlob(r)
       \/ PasteInsertPerm(r)
       \/ PasteReadFolder(r)
       \/ PasteInsertFolder(r)
       \/ PasteLog(r)

SpecPaths == InitUpload /\ [][NextPaths]_vars

(***************************************************************************)
(* Properties of Upload.                                                   *)
(***************************************************************************)
UploadDone(r) == req[r].kind = "upload" /\ Finished(r)

OwnerPerms(fid) == {p \in perms : p.file_id = fid /\ p.role = "owner"}

\* C1: whenever Upload has returned success, its File row is in the metadata
\* store, a blob is at that row's path, and exactly one owner Permission row
\* exists for the file, with a share_token no other Permission row carries.
C1_UploadSuccessConsistent ==
  \A r \in Slots :
    (UploadDone(r) /\ req[r].status = 201) =>
      \E f \in files :
        /\ f.id = req[r].fileId
        /\ f.path \in blobs
        /\ Cardinality(OwnerPerms(f.id)) = 1
        /\ \A p \in OwnerPerms(f.id) :
             \A q \in perms : q # p => q.share_token # p.share_token

C1_Witness ==
  /\ \A r \in Slots : UploadDone(r) /\ req[r].status = 201
  /\ Cardinality(perms) >= 2

\* C2: whenever Upload has returned failure and every compensating store
\* call it made succeeded, no File row created by it is in the metadata store.
C2_UploadFailureNoRow ==
  \A r \in Slots :
    (UploadDone(r) /\ req[r].status # 201 /\ req[r].compOk) =>
      ~ \E f \in files : f.id = req[r].fileId

C2_Witness ==
  \E r \in Slots :
    /\ UploadDone(r) /\ req[r].status = 500 /\ req[r].compOk
    /\ req[r].failedAt = "perm" /\ req[r].fileId # NULL

UploadPaths(r) ==
  {MainPath(req[r].user, req[r].ts, req[r].name),
   VersionPath(req[r].user, req[r].ts, req[r].name)}

FailedAtPerm(r) ==
  UploadDone(r) /\ req[r].status = 500 /\ req[r].failedAt = "perm"

NotListed(r) == req[r].fileId \notin {f.id : f \in Listing(req[r].user)}

Truthy(n) == n # NullCount /\ n # 0

PermByToken(t) == Single({p \in perms : p.share_token = t})

LiveFile(id) == Single({f \in files : f.id = id /\ f.deleted_at = NULL})

\* new Date() > new Date(permission.expires_at)
Expired(p) == p.expires_at # NULL /\ now > p.expires_at

\* permission.max_access_count && permission.access_count >= permission.max_access_count
LimitReached(p) == Truthy(p.max_access_count) /\ p.access_count >= p.max_access_count

\* section 3 of the design: a token is usable iff it has not expired and its
\* access_count is below max_access_count, when that is set
Usable(p) ==
  /\ (p.expires_at = NULL \/ now <= p.expires_at)
  /\ (p.max_access_count = NullCount \/ p.access_count < p.max_access_count)

ShareTokenInputs == {2, 3, BadToken}

ShareStart(r) ==
  /\ ~Active(r)
  /\ nreq < MaxResolves
  /\ nreq' = nreq + 1
  /\ \E k \in {"resolve", "download"}, t \in ShareTokenInputs :
       req' = Arrive(r, [Idle EXCEPT !.kind = k, !.token = t, !.pc = "s_perm"])
  /\ UNCHANGED <<store, seqs, now, ghost>>

ResolveReadPerm(r) ==
  /\ req[r].kind = "resolve" /\ req[r].pc = "s_perm"
  /\ \E ok \in BOOLEAN :
       /\ faults' = (faults \/ ~ok)
       /\ LET row == PermByToken(req[r].token)
          IN req' = [req EXCEPT ![r] =
               IF ~ok \/ row = {} THEN Fail(r, 404, "token")
               ELSE LET p == CHOOSE x \in row : TRUE
                    IN IF Expired(p)
                       THEN [Fail(r, 403, "expired") EXCEPT !.perm = p, !.usable = Usable(p)]
                       ELSE IF LimitReached(p)
                       THEN [Fail(r, 403, "limit") EXCEPT !.perm = p, !.usable = Usable(p)]
                       ELSE [@ EXCEPT !.pc = "s_file", !.perm = p, !.usable = Usable(p)]]
  /\ UNCHANGED <<store, seqs, now, nreq, pathHist, counts>>

\* as DownloadReadPerm, but can_download is not looked at
DownloadReadPermAnyLink(r) ==
  /\ req[r].kind = "download" /\ req[r].pc = "s_perm"
  /\ \E ok \in BOOLEAN :
       /\ faults' = (faults \/ ~ok)
       /\ LET row == PermByToken(req[r].token)
          IN req' = [req EXCEPT ![r] =
               IF ~ok \/ row = {} THEN Fail(r, 404, "token")
               ELSE LET p == CHOOSE x \in row : TRUE
                    IN IF Expired(p)
                       THEN [Fail(r, 403, "expired") EXCEPT !.perm = p, !.usable = Usable(p)]
                       ELSE IF LimitReached(p)
                       THEN [Fail(r, 403, "limit") EXCEPT !.perm = p, !.usable = Usable(p)]
                       ELSE [@ EXCEPT !.pc = "s_file", !.perm = p, !.usable = Usable(p)]]
  /\ UNCHANGED <<store, seqs, now, nreq, pathHist, counts>>

DownloadReadPerm(r) ==
  /\ req[r].kind = "download" /\ req[r].pc = "s_perm"
  /\ \E ok \in BOOLEAN :
       /\ faults' = (faults \/ ~ok)
       /\ LET row == PermByToken(req[r].token)
          IN req' = [req EXCEPT ![r] =
               IF ~ok \/ row = {} THEN Fail(r, 404, "token")
               ELSE LET p == CHOOSE x \in row : TRUE
                    IN IF ~p.can_download
                       THEN [Fail(r, 403, "download") EXCEPT !.perm = p, !.usable = Usable(p)]
                       ELSE IF Expired(p)
                       THEN [Fail(r, 403, "expired") EXCEPT !.perm = p, !.usable = Usable(p)]
                       ELSE IF LimitReached(p)
                       THEN [Fail(r, 403, "limit") EXCEPT !.perm = p, !.usable = Usable(p)]
                       ELSE [@ EXCEPT !.pc = "s_file", !.perm = p, !.usable = Usable(p)]]
  /\ UNCHANGED <<store, seqs, now, nreq, pathHist, counts>>

\* the files row of the permission, .is("deleted_at", null)
ShareReadFile(r) ==
  /\ req[r].kind \in {"resolve", "download"} /\ req[r].pc = "s_file"
  /\ \E ok \in BOOLEAN :
       /\ faults' = (faults \/ ~ok)
       /\ LET row == LiveFile(req[r].perm.file_id)
          IN req' = [req EXCEPT ![r] =
               IF ~ok \/ row = {} THEN Fail(r, 404, "file")
               ELSE [@ EXCEPT !.fileId = req[r].perm.file_id,
                              !.pc = IF req[r].kind = "resolve" THEN "s_update"
                                     ELSE "s_blob"]]
  /\ UNCHANGED <<store, seqs, now, nreq, pathHist, counts>>

FilePath(id) == (CHOOSE f \in files : f.id = id).path

\* storage download of file.path
DownloadBlob(r) ==
  /\ req[r].kind = "download" /\ req[r].pc = "s_blob"
  /\ \E ok \in BOOLEAN :
       /\ faults' = (faults \/ ~ok)
       /\ req' = [req EXCEPT ![r] =
            IF ok /\ FilePath(req[r].fileId) \in blobs
            THEN [@ EXCEPT !.pc = "s_update"]
            ELSE Fail(r, 500, "storage")]
  /\ UNCHANGED <<store, seqs, now, nreq, pathHist, counts>>

\* as SetAccessCount, but the stored count is incremented in place
SetAccessCountInPlace(t, n) ==
  {IF p.share_token = t THEN [p EXCEPT !.access_count = @ + 1] ELSE p : p \in perms}

\* update({ access_count: permission.access_count + 1 }).eq("share_token", t);
\* the result of the update is not looked at
SetAccessCount(t, n) ==
  {IF p.share_token = t THEN [p EXCEPT !.access_count = n] ELSE p : p \in perms}

ShareUpdate(r) ==
  /\ req[r].kind \in {"resolve", "download"} /\ req[r].pc = "s_update"
  /\ \E ok \in BOOLEAN :
       /\ faults' = (faults \/ ~ok)
       /\ perms' = IF ok THEN SetAccessCount(req[r].token, req[r].perm.access_count + 1)
                   ELSE perms
  /\ req' = [req EXCEPT ![r] =
       [Respond(r, 200) EXCEPT !.wrote = TRUE, !.sent = (req[r].kind = "download")]]
  /\ served' = [served EXCEPT ![req[r].token] = @ + 1]
  /\ UNCHANGED <<files, folders, blobs, versions, clipboard, logs, seqs, now, nreq,
                 pathHist, copies>>

IsValidShareToken(t) == t # BadToken

FilesShareStart(r) ==
  /\ ~Active(r)
  /\ nreq < MaxResolves
  /\ nreq' = nreq + 1
  /\ \E t \in ShareTokenInputs :
       req' = Arrive(r,
         IF IsValidShareToken(t)
         THEN [Idle EXCEPT !.kind = "filesShare", !.token = t, !.pc = "f_perm"]
         ELSE Early("filesShare", 400))
  /\ UNCHANGED <<store, seqs, now, ghost>>

\* select("file_id, role").eq("share_token", shareToken).single()
FilesShareReadPerm(r) ==
  /\ req[r].kind = "filesShare" /\ req[r].pc = "f_perm"
  /\ \E ok \in BOOLEAN :
       /\ faults' = (faults \/ ~ok)
       /\ LET row == PermByToken(req[r].token)
          IN req' = [req EXCEPT ![r] =
               IF ~ok \/ row = {} THEN Fail(r, 404, "token")
               ELSE LET p == CHOOSE x \in row : TRUE
                    IN [@ EXCEPT !.pc = "f_file", !.perm = p, !.usable = Usable(p)]]
  /\ UNCHANGED <<store, seqs, now, nreq, pathHist, counts>>

FilesShareReadFile(r) ==
  /\ req[r].kind = "filesShare" /\ req[r].pc = "f_file"
  /\ \E ok \in BOOLEAN :
       /\ faults' = (faults \/ ~ok)
       /\ LET row == LiveFile(req[r].perm.file_id)
          IN req' = [req EXCEPT ![r] =
               IF ~ok \/ row = {} THEN Fail(r, 404, "file")
               ELSE [@ EXCEPT !.fileId = req[r].perm.file_id, !.pc = "f_url"]]
  /\ UNCHANGED <<store, seqs, now, nreq, pathHist, counts>>

\* createSignedUrl(file.path, 3600)
FilesShareSignedUrl(r) ==
  /\ req[r].kind = "filesShare" /\ req[r].pc = "f_url"
  /\ \E ok \in BOOLEAN :
       /\ faults' = (faults \/ ~ok)
       /\ req' = [req EXCEPT ![r] =
            IF ok /\ FilePath(req[r].fileId) \in blobs
            THEN Respond(r, 200)
            ELSE Fail(r, 500, "storage")]
  /\ UNCHANGED <<store, seqs, now, nreq, pathHist, counts>>

Share(r) ==
  \/ ShareStart(r)
  \/ ResolveReadPerm(r)
  \/ DownloadReadPerm(r)
  \/ ShareReadFile(r)
  \/ DownloadBlob(r)
  \/ ShareUpdate(r)
  \/ FilesShareStart(r)
  \/ FilesShareReadPerm(r)
  \/ FilesShareReadFile(r)
  \/ FilesShareSignedUrl(r)

(***************************************************************************)
(* The store of the share specifications: one file of user 1 with its      *)
(* owner permission (token 1) and one share link (token 2).                *)
(***************************************************************************)
SharedPath == MainPath(1, 1, NameSp)

InitShare ==
  /\ InitCommon
  /\ \E del \in {NULL, 1} :
       files = {[id |-> 1, name |-> NameSp, path |-> SharedPath, user_id |-> 1,
                 folder_id |-> NULL, deleted_at |-> del]}
  /\ folders = InitFolders
  /\ \E cd \in BOOLEAN, ex \in {NULL, 1}, mx \in {NullCount, 0, 1, 2} :
       perms = {PermRow(1, 1, 1, "owner", 1),
                [PermRow(2, 1, NULL, "view", 2) EXCEPT
                   !.can_download = cd, !.expires_at = ex, !.max_access_count = mx]}
  /\ blobs = {SharedPath}
  /\ versions = {}
  /\ clipboard = {}
  /\ nextFileId = 2
  /\ nextFolderId = 4
  /\ nextPermId = 3
  /\ nextClipId = 1
  /\ nextToken = 3

\* requests overlap
NextShare == Tick \/ \E r \in Slots : Share(r)

SpecShare == InitShare /\ [][NextShare]_vars

\* requests are issued one after another: a request arrives only when no
\* other is being handled
NextShareSeq ==
  \/ Tick
  \/ \E r \in Slots :
       \/ Quiet /\ ShareStart(r)
       \/ Quiet /\ FilesShareStart(r)
       \/ ResolveReadPerm(r)
       \/ DownloadReadPerm(r)
       \/ ShareReadFile(r)
       \/ DownloadBlob(r)
       \/ ShareUpdate(r)
       \/ FilesShareReadPerm(r)
       \/ FilesShareReadFile(r)
       \/ FilesShareSignedUrl(r)

SpecShareSeq == InitShare /\ [][NextShareSeq]_vars

(***************************************************************************)
(* PATCH /files/share/:shareToken: the edit of a shared file.              *)
(***************************************************************************)
EditTokenInputs == {1, 2, 3, 4, BadToken}
EditNames == {NameUs, <<"t">>}

\* `versions/${file.user_id}/${Date.now()}_${name}`: the new name as given
EditVersionPath(u, ts, n) == [ns |-> "versions", user |-> u, ts |-> ts, name |-> n]

EditStart(r) ==
  /\ ~Active(r)
  /\ nreq < MaxEdits
  /\ nreq' = nreq + 1
  /\ \E t \in EditTokenInputs, n \in EditNames \cup {<<>>} :
       req' = Arrive(r,
         IF ~IsValidShareToken(t) THEN Early("edit", 400)
         ELSE IF n = <<>> THEN Early("edit", 400)
         ELSE [Idle EXCEPT !.kind = "edit", !.token = t, !.name = n, !.pc = "e_perm"])
  /\ UNCHANGED <<store, seqs, now, ghost>>

\* select("file_id, role").eq("share_token", t).eq("role", "edit").single()
EditPermByToken(t) == Single({p \in perms : p.share_token = t /\ p.role = "edit"})

EditReadPerm(r) ==
  /\ req[r].kind = "edit" /\ req[r].pc = "e_perm"
  /\ \E ok \in BOOLEAN :
       /\ faults' = (faults \/ ~ok)
       /\ LET row == EditPermByToken(req[r].token)
          IN req' = [req EXCEPT ![r] =
               IF ~ok \/ row = {} THEN Fail(r, 403, "token")
               ELSE LET p == CHOOSE x \in row : TRUE
                    IN [@ EXCEPT !.pc = "e_file", !.perm = p, !.usable = Usable(p)]]
  /\ UNCHANGED <<store, seqs, now, nreq, pathHist, counts>>

EditReadFile(r) ==
  /\ req[r].kind = "edit" /\ req[r].pc = "e_file"
  /\ \E ok \in BOOLEAN :
       /\ faults' = (faults \/ ~ok)
       /\ LET row == LiveFile(req[r].perm.file_id)
          IN req' = [req EXCEPT ![r] =
               IF ~ok \/ row = {} THEN Fail(r, 404, "file")
               ELSE LET f == CHOOSE x \in row : TRUE
                    IN [@ EXCEPT !.pc = "e_last", !.fileId = f.id, !.user = f.user_id,
                                 !.oldName = f.name]]
  /\ UNCHANGED <<store, seqs, now, nreq, pathHist, counts>>

VersionNumbers(fid) == {v.version_number : v \in {w \in versions : w.file_id = fid}}

Max(S) == CHOOSE x \in S : \A y \in S : y <= x

\* order("version_number", { ascending: false }).limit(1).single(); the
\* error of the query is not looked at:
\* nextVersionNumber = lastVersion ? lastVersion.version_number + 1 : 1
EditReadLastVersion(r) ==
  /\ req[r].kind = "edit" /\ req[r].pc = "e_last"
  /\ \E ok \in BOOLEAN :
       /\ faults' = (faults \/ ~ok)
       /\ LET nums == VersionNumbers(req[r].fileId)
          IN req' = [req EXCEPT ![r].pc = "e_download",
                                ![r].ver = IF ok /\ nums # {} THEN Max(nums) + 1 ELSE 1]
  /\ UNCHANGED <<store, seqs, now, nreq, pathHist, counts>>

\* storage download of file.path, then versionPath is built from Date.now()
EditDownload(r) ==
  /\ req[r].kind = "edit" /\ req[r].pc = "e_download"
  /\ \E ok \in BOOLEAN :
       /\ faults' = (faults \/ ~ok)
       /\ req' = [req EXCEPT ![r] =
            IF ok /\ FilePath(req[r].fileId) \in blobs
            THEN [@ EXCEPT !.pc = "e_put", !.ts = now,
                           !.newPath = EditVersionPath(req[r].user, now, req[r].name)]
            ELSE Fail(r, 500, "download")]
  /\ UNCHANGED <<store, seqs, now, nreq, pathHist, counts>>

\* storage upload to versionPath; an existing object is not overwritten
EditPutVersion(r) ==
  /\ req[r].kind = "edit" /\ req[r].pc = "e_put"
  /\ \E ok \in BOOLEAN :
       /\ faults' = (faults \/ ~ok)
       /\ IF ok /\ req[r].newPath \notin blobs
          THEN /\ blobs' = blobs \cup {req[r].newPath}
               /\ req' = [req EXCEPT ![r].pc = "e_insert", ![r].wrote = TRUE]
          ELSE /\ req' = [req EXCEPT ![r] = Fail(r, 500, "put")]
               /\ UNCHANGED blobs
  /\ UNCHANGED <<files, folders, perms, versions, clipboard, logs, seqs, now, nreq,
                 pathHist, counts>>

EditVersionRow(r) ==
  [file_id |-> req[r].fileId, version_number |-> req[r].ver,
   path |-> req[r].newPath, created_by |-> NULL]

EditInsertVersion(r) ==
  /\ req[r].kind = "edit" /\ req[r].pc = "e_insert"
  /\ \E ok \in BOOLEAN :
       /\ faults' = (faults \/ ~ok)
       /\ IF ok
          THEN /\ versions' = versions \cup {EditVersionRow(r)}
               /\ req' = [req EXCEPT ![r].pc = "e_update"]
          ELSE /\ req' = [req EXCEPT ![r].pc = "e_rm_blob", ![r].err = "insert"]
               /\ UNCHANGED versions
  /\ UNCHANGED <<files, folders, perms, blobs, clipboard, logs, seqs, now, nreq,
                 pathHist, counts>>

\* remove([versionPath]) of both rollbacks; its result is not looked at
EditRemoveBlob(r) ==
  /\ req[r].kind = "edit" /\ req[r].pc = "e_rm_blob"
  /\ \E ok \in BOOLEAN :
       /\ faults' = (faults \/ ~ok)
       /\ blobs' = IF ok THEN blobs \ {req[r].newPath} ELSE blobs
       /\ req' = [req EXCEPT ![r] =
            LET s == [@ EXCEPT !.compOk = (@ /\ ok)]
            IN IF req[r].err = "insert"
               THEN [s EXCEPT !.pc = "done", !.status = 500]
               ELSE [s EXCEPT !.pc = "e_rm_row"]]
  /\ UNCHANGED <<files, folders, perms, versions, clipboard, logs, seqs, now, nreq,
                 pathHist, counts>>

\* update({ name }).eq("id", file.id).select(...).single()
EditUpdateName(r) ==
  /\ req[r].kind = "edit" /\ req[r].pc = "e_update"
  /\ \E ok \in BOOLEAN :
       /\ faults' = (faults \/ ~ok)
       /\ IF ok /\ \E f \in files : f.id = req[r].fileId
          THEN /\ files' = {IF f.id = req[r].fileId THEN [f EXCEPT !.name = req[r].name]
                            ELSE f : f \in files}
               /\ req' = [req EXCEPT ![r].pc = "e_log"]
          ELSE /\ req' = [req EXCEPT ![r].pc = "e_rm_blob", ![r].err = "update"]
               /\ UNCHANGED files
  /\ UNCHANGED <<folders, perms, blobs, versions, clipboard, logs, seqs, now, nreq,
                 pathHist, counts>>

\* file_versions delete by file_id and version_number; its result is not
\* looked at
EditRemoveRow(r) ==
  /\ req[r].kind = "edit" /\ req[r].pc = "e_rm_row"
  /\ \E ok \in BOOLEAN :
       /\ faults' = (faults \/ ~ok)
       /\ versions' = IF ok
            THEN {v \in versions : ~(v.file_id = req[r].fileId
                                      /\ v.version_number = req[r].ver)}
            ELSE versions
       /\ req' = [req EXCEPT ![r] = [Respond(r, 500) EXCEPT !.compOk = (@ /\ ok)]]
  /\ UNCHANGED <<files, folders, perms, blobs, clipboard, logs, seqs, now, nreq,
                 pathHist, counts>>

\* as EditLog, but a failed log insert fails the request
EditLogFatal(r) ==
  /\ req[r].kind = "edit" /\ req[r].pc = "e_log"
  /\ \E ok \in BOOLEAN :
       /\ logs' = LogActivity(NULL, req[r].fileId, "edit", ok)
       /\ req' = [req EXCEPT ![r] = IF ok THEN [@ EXCEPT !.pc = "e_url"]
                                     ELSE Fail(r, 500, "log")]
  /\ UNCHANGED <<files, folders, perms, blobs, versions, clipboard, seqs, now, nreq, ghost>>

EditLog(r) ==
  /\ req[r].kind = "edit" /\ req[r].pc = "e_log"
  /\ \E ok \in BOOLEAN :
       logs' = LogActivity(NULL, req[r].fileId, "edit", ok)
  /\ req' = [req EXCEPT ![r].pc = "e_url"]
  /\ UNCHANGED <<files, folders, perms, blobs, versions, clipboard, seqs, now, nreq, ghost>>

\* createSignedUrl(file.path, 3600)
EditSignedUrl(r) ==
  /\ req[r].kind = "edit" /\ req[r].pc = "e_url"
  /\ \E ok \in BOOLEAN :
       /\ faults' = (faults \/ ~ok)
       /\ req' = [req EXCEPT ![r] =
            IF ok /\ FilePath(req[r].fileId) \in blobs
            THEN Respond(r, 200)
            ELSE Fail(r, 500, "url")]
  /\ UNCHANGED <<store, seqs, now, nreq, pathHist, counts>>

VersionedEdit(r) ==
  \/ EditStart(r)
  \/ EditReadPerm(r)
  \/ EditReadFile(r)
  \/ EditReadLastVersion(r)
  \/ EditDownload(r)
  \/ EditPutVersion(r)
  \/ EditInsertVersion(r)
  \/ EditRemoveBlob(r)
  \/ EditUpdateName(r)
  \/ EditRemoveRow(r)
  \/ EditLog(r)
  \/ EditSignedUrl(r)

(***************************************************************************)
(* The store of the edit specifications: one file of user 1 with its owner *)
(* permission (token 1), an edit link (token 2) and a view link (token 3); *)
(* the file has the version 1 of its upload or none.                       *)
(***************************************************************************)
InitEdit ==
  /\ InitCommon
  /\ files = {[id |-> 1, name |-> NameSp, path |-> SharedPath, user_id |-> 1,
               folder_id |-> NULL, deleted_at |-> NULL]}
  /\ folders = InitFolders
  /\ \E ex \in {NULL, 1}, mx \in {NullCount, 0} :
       perms = {PermRow(1, 1, 1, "owner", 1),
                [PermRow(2, 1, NULL, "edit", 2) EXCEPT
                   !.expires_at = ex, !.max_access_count = mx],
                PermRow(3, 1, NULL, "view", 3)}
  /\ blobs = {SharedPath, VersionPath(1, 1, NameSp)}
  /\ \E hasVersion \in BOOLEAN :
       versions = IF hasVersion
                  THEN {[file_id |-> 1, version_number |-> 1,
                         path |-> VersionPath(1, 1, NameSp), created_by |-> 1]}
                  ELSE {}
  /\ clipboard = {}
  /\ nextFileId = 2
  /\ nextFolderId = 4
  /\ nextPermId = 4
  /\ nextClipId = 1
  /\ nextToken = 4

NextEdit == Tick \/ \E r \in Slots : VersionedEdit(r)

SpecEdit == InitEdit /\ [][NextEdit]_vars

\* requests are issued one after another
NextEditSeq ==
  \/ Tick
  \/ \E r \in Slots :
       \/ Quiet /\ EditStart(r)
       \/ EditReadPerm(r)
       \/ EditReadFile(r)
       \/ EditReadLastVersion(r)
       \/ EditDownload(r)
       \/ EditPutVersion(r)
       \/ EditInsertVersion(r)
       \/ EditRemoveBlob(r)
       \/ EditUpdateName(r)
       \/ EditRemoveRow(r)
       \/ EditLog(r)
       \/ EditSignedUrl(r)

SpecEditSeq == InitEdit /\ [][NextEditSeq]_vars

(***************************************************************************)
(* POST /files/:fileId/share: the creation of a share link.                *)
(***************************************************************************)
IssueFileIds == {1, 2, NaN}
IssueRoles == {"view", "edit", "owner", "none"}

\* /^[0-9]+$/.test(fileId)
IsValidFileId(id) == id # NaN

IssueStart(r) ==
  /\ ~Active(r)
  /\ nreq < MaxIssues
  /\ nreq' = nreq + 1
  /\ \E u \in Users, id \in IssueFileIds, role \in IssueRoles :
       req' = Arrive(r,
         IF ~IsValidFileId(id)
         THEN [Early("issue", 400) EXCEPT !.user = u, !.role = role]
         ELSE IF role \notin {"view", "edit"}
         THEN [Early("issue", 400) EXCEPT !.user = u, !.fileId = id, !.role = role]
         ELSE [Idle EXCEPT !.kind = "issue", !.user = u, !.fileId = id,
                           !.role = role, !.pc = "i_perm"])
  /\ UNCHANGED <<store, seqs, now, ghost>>

IssueCheckPerm(r) ==
  /\ req[r].kind = "issue" /\ req[r].pc = "i_perm"
  /\ \E ok \in BOOLEAN :
       /\ faults' = (faults \/ ~ok)
       /\ req' = [req EXCEPT ![r] =
            IF ~ok \/ OwnerPermOf(req[r].fileId, req[r].user) = {}
            THEN Fail(r, 403, "owner")
            ELSE [@ EXCEPT !.pc = "i_file"]]
  /\ UNCHANGED <<store, seqs, now, nreq, pathHist, counts>>

\* select("name").eq("id", fileId).single()
IssueReadFile(r) ==
  /\ req[r].kind = "issue" /\ req[r].pc = "i_file"
  /\ \E ok \in BOOLEAN :
       /\ faults' = (faults \/ ~ok)
       /\ req' = [req EXCEPT ![r] =
            IF ~ok \/ {f \in files : f.id = req[r].fileId} = {}
            THEN Fail(r, 404, "file")
            ELSE [@ EXCEPT !.pc = "i_insert"]]
  /\ UNCHANGED <<store, seqs, now, nreq, pathHist, counts>>

\* as IssueInsert, but the row carries the share_token of the owner row
IssueInsertOwnerToken(r) ==
  /\ req[r].kind = "issue" /\ req[r].pc = "i_insert"
  /\ \E ok \in BOOLEAN :
       /\ faults' = (faults \/ ~ok)
       /\ IF ok
          THEN /\ perms' = perms \cup
                    {PermRow(nextPermId, req[r].fileId, NULL, req[r].role,
                             (CHOOSE p \in OwnerPerms(req[r].fileId) : TRUE).share_token)}
               /\ nextPermId' = nextPermId + 1
               /\ nextToken' = nextToken + 1
               /\ req' = [req EXCEPT ![r].pc = "i_log", ![r].token = UuidV4,
                                     ![r].wrote = TRUE]
          ELSE /\ req' = [req EXCEPT ![r] = Fail(r, 500, "insert")]
               /\ UNCHANGED <<perms, nextPermId, nextToken>>
  /\ UNCHANGED <<files, folders, blobs, versions, clipboard, logs,
                 nextFileId, nextFolderId, nextClipId, now, nreq, pathHist, counts>>

\* shareToken = uuidv4(), then the permissions insert with user_id null
IssueInsert(r) ==
  /\ req[r].kind = "issue" /\ req[r].pc = "i_insert"
  /\ \E ok \in BOOLEAN :
       /\ faults' = (faults \/ ~ok)
       /\ IF ok
          THEN /\ perms' = perms \cup
                    {PermRow(nextPermId, req[r].fileId, NULL, req[r].role, UuidV4)}
               /\ nextPermId' = nextPermId + 1
               /\ nextToken' = nextToken + 1
               /\ req' = [req EXCEPT ![r].pc = "i_log", ![r].token = UuidV4,
                                     ![r].wrote = TRUE]
          ELSE /\ req' = [req EXCEPT ![r] = Fail(r, 500, "insert")]
               /\ UNCHANGED <<perms, nextPermId, nextToken>>
  /\ UNCHANGED <<files, folders, blobs, versions, clipboard, logs,
                 nextFileId, nextFolderId, nextClipId, now, nreq, pathHist, counts>>

IssueLog(r) ==
  /\ req[r].kind = "issue" /\ req[r].pc = "i_log"
  /\ \E ok \in BOOLEAN : logs' = LogActivity(req[r].user, req[r].fileId, "share", ok)
  /\ req' = [req EXCEPT ![r] = Respond(r, 201)]
  /\ UNCHANGED <<files, folders, perms, blobs, versions, clipboard, seqs, now, nreq,
                 ghost>>

Issue(r) ==
  \/ IssueStart(r)
  \/ IssueCheckPerm(r)
  \/ IssueReadFile(r)
  \/ IssueInsert(r)
  \/ IssueLog(r)

NextIssue == Tick \/ \E r \in Slots : Issue(r)

SpecIssue == InitEdit /\ [][NextIssue]_vars

(***************************************************************************)
(* The routes that write the activity log, on the store of the edit        *)
(* specifications: Upload, file SoftDelete, Issue, VersionedEdit,          *)
(* SetClipboard and Paste, the requests issued one after another.          *)
(***************************************************************************)
MayArrive == Quiet /\ nreq < MaxLogged

NextLogged ==
  \/ Tick
  \/ \E r \in Slots :
       \/ MayArrive /\ UploadStart(r)
       \/ UploadFolderCheck(r)
       \/ UploadInsertFile(r)
       \/ UploadPutMain(r)
       \/ UploadUndoRow(r)
       \/ UploadPutVersion(r)
       \/ UploadInsertPerm(r)
       \/ UploadRbMain(r)
       \/ UploadRbVersion(r)
       \/ UploadRbRow(r)
       \/ UploadInsertVersion(r)
       \/ UploadLog(r)
       \/ MayArrive /\ FileDeleteStart(r)
       \/ FileDeleteCheckPerm(r)
       \/ FileDeleteReadFile(r)
       \/ FileDeleteUpdate(r)
       \/ FileDeleteLog(r)
       \/ MayArrive /\ IssueStart(r)
       \/ IssueCheckPerm(r)
       \/ IssueReadFile(r)
       \/ IssueInsert(r)
       \/ IssueLog(r)
       \/ MayArrive /\ EditStart(r)
       \/ EditReadPerm(r)
       \/ EditReadFile(r)
       \/ EditReadLastVersion(r)
       \/ EditDownload(r)
       \/ EditPutVersion(r)
       \/ EditInsertVersion(r)
       \/ EditRemoveBlob(r)
       \/ EditUpdateName(r)
       \/ EditRemoveRow(r)
       \/ EditLog(r)
       \/ EditSignedUrl(r)
       \/ MayArrive /\ ClipStart(r)
       \/ ClipCheckItem(r)
       \/ ClipDeleteOld(r)
       \/ ClipInsert(r)
       \/ ClipLog(r)
       \/ MayArrive /\ PasteStart(r)
       \/ PasteReadClip(r)
       \/ PasteCheckTarget(r)
       \/ PasteMoveFile(r)
       \/ PasteMoveFolder(r)
       \/ PasteClear(r)
       \/ PasteReadOriginal(r)
       \/ PasteDownload(r)
       \/ PasteUpload(r)
       \/ PasteInsertFile(r)
       \/ PasteUndoBlob(r)
       \/ PasteInsertPerm(r)
       \/ PasteReadFolder(r)
       \/ PasteInsertFolder(r)
       \/ PasteLog(r)

SpecLogged == InitEdit /\ [][NextLogged]_vars

(***************************************************************************)
(* The routes that look an item up by id and owner: Upload, SetClipboard,  *)
(* Paste and the folder delete, on the store of the clipboard              *)
(* specifications, the requests issued one after another.                  *)
(***************************************************************************)
NextProbe ==
  \/ Tick
  \/ \E r \in Slots :
       \/ MayArrive /\ UploadStart(r)
       \/ UploadFolderCheck(r)
       \/ UploadInsertFile(r)
       \/ UploadPutMain(r)
       \/ UploadUndoRow(r)
       \/ UploadPutVersion(r)
       \/ UploadInsertPerm(r)
       \/ UploadRbMain(r)
       \/ UploadRbVersion(r)
       \/ UploadRbRow(r)
       \/ UploadInsertVersion(r)
       \/ UploadLog(r)
       \/ MayArrive /\ ClipStart(r)
       \/ ClipCheckItem(r)
       \/ ClipDeleteOld(r)
       \/ ClipInsert(r)
       \/ ClipLog(r)
       \/ MayArrive /\ PasteStart(r)
       \/ PasteReadClip(r)
       \/ PasteCheckTarget(r)
       \/ PasteMoveFile(r)
       \/ PasteMoveFolder(r)
       \/ PasteClear(r)
       \/ PasteReadOriginal(r)
       \/ PasteDownload(r)
       \/ PasteUpload(r)
       \/ PasteInsertFile(r)
       \/ PasteUndoBlob(r)
       \/ PasteInsertPerm(r)
       \/ PasteReadFolder(r)
       \/ PasteInsertFolder(r)
       \/ PasteLog(r)
       \/ MayArrive /\ FolderDeleteStart(r)
       \/ FolderDeleteCheck(r)
       \/ FolderDeleteReadSubfolders(r)
       \/ FolderDeleteReadFiles(r)
       \/ FolderDeleteUpdate(r)

SpecProbe == InitClip /\ [][NextProbe]_vars

(***************************************************************************)
(* SetClipboard, Paste and the two soft deletes, on the store of the       *)
(* clipboard specifications, the requests issued one after another.        *)
(***************************************************************************)
NextStale ==
  \/ Tick
  \/ \E r \in Slots :
       \/ Quiet /\ ClipStart(r)
       \/ ClipCheckItem(r)
       \/ ClipDeleteOld(r)
       \/ ClipInsert(r)
       \/ ClipLog(r)
       \/ Quiet /\ PasteStart(r)
       \/ PasteReadClip(r)
       \/ PasteCheckTarget(r)
       \/ PasteMoveFile(r)
       \/ PasteMoveFolder(r)
       \/ PasteClear(r)
       \/ PasteReadOriginal(r)
       \/ PasteDownload(r)
       \/ PasteUpload(r)
       \/ PasteInsertFile(r)
       \/ PasteUndoBlob(r)
       \/ PasteInsertPerm(r)
       \/ PasteReadFolder(r)
       \/ PasteInsertFolder(r)
       \/ PasteLog(r)
       \/ Quiet /\ FileDeleteStart(r)
       \/ FileDeleteCheckPerm(r)
       \/ FileDeleteReadFile(r)
       \/ FileDeleteUpdate(r)
       \/ FileDeleteLog(r)
       \/ Quiet /\ FolderDeleteStart(r)
       \/ FolderDeleteCheck(r)
       \/ FolderDeleteReadSubfolders(r)
       \/ FolderDeleteReadFiles(r)
       \/ FolderDeleteUpdate(r)

SpecStale == InitClip /\ [][NextStale]_vars

(***************************************************************************)
(* The authenticated routes of user 1 on a store that also holds a file, a *)
(* folder and a clipboard entry of user 2, the requests issued one after   *)
(* another.                                                                *)
(***************************************************************************)
InitIso ==
  /\ InitCommon
  /\ files = {[id |-> 1, name |-> NameSp, path |-> ClipPath1, user_id |-> 1,
               folder_id |-> NULL, deleted_at |-> NULL],
              [id |-> 2, name |-> NameSp, path |-> ClipPath2, user_id |-> 2,
               folder_id |-> 2, deleted_at |-> NULL]}
  /\ folders = InitFolders
  /\ perms = {PermRow(1, 1, 1, "owner", 1), PermRow(2, 2, 2, "owner", 2)}
  /\ blobs = {ClipPath1, ClipPath2}
  /\ versions = {}
  /\ clipboard = {[id |-> 1, user_id |-> 2, item_id |-> 2, item_type |-> "file",
                   operation |-> "cut"]}
  /\ nextFileId = 3
  /\ nextFolderId = 4
  /\ nextPermId = 3
  /\ nextClipId = 2
  /\ nextToken = 3

NextIso ==
  \/ Tick
  \/ \E r \in Slots :
       \/ MayArrive /\ UploadStart(r)
       \/ UploadFolderCheck(r)
       \/ UploadInsertFile(r)
       \/ UploadPutMain(r)
       \/ UploadUndoRow(r)
       \/ UploadPutVersion(r)
       \/ UploadInsertPerm(r)
       \/ UploadRbMain(r)
       \/ UploadRbVersion(r)
       \/ UploadRbRow(r)
       \/ UploadInsertVersion(r)
       \/ UploadLog(r)
       \/ MayArrive /\ ClipStart(r)
       \/ ClipCheckItem(r)
       \/ ClipDeleteOld(r)
       \/ ClipInsert(r)
       \/ ClipLog(r)
       \/ MayArrive /\ PasteStart(r)
       \/ PasteReadClip(r)
       \/ PasteCheckTarget(r)
       \/ PasteMoveFile(r)
       \/ PasteMoveFolder(r)
       \/ PasteClear(r)
       \/ PasteReadOriginal(r)
       \/ PasteDownload(r)
       \/ PasteUpload(r)
       \/ PasteInsertFile(r)
       \/ PasteUndoBlob(r)
       \/ PasteInsertPerm(r)
       \/ PasteReadFolder(r)
       \/ PasteInsertFolder(r)
       \/ PasteLog(r)
       \/ MayArrive /\ ClearClipboard(r)
       \/ MayArrive /\ FileDeleteStart(r)
       \/ FileDeleteCheckPerm(r)
       \/ FileDeleteReadFile(r)
       \/ FileDeleteUpdate(r)
       \/ FileDeleteLog(r)
       \/ MayArrive /\ FolderDeleteStart(r)
       \/ FolderDeleteCheck(r)
       \/ FolderDeleteReadSubfolders(r)
       \/ FolderDeleteReadFiles(r)
       \/ FolderDeleteUpdate(r)
       \/ MayArrive /\ FilePatchStart(r)
       \/ FilePatchCheckPerm(r)
       \/ FilePatchCheckFolder(r)
       \/ FilePatchReadFile(r)
       \/ FilePatchWrite(r)
       \/ FilePatchLog(r)
       \/ MayArrive /\ FolderUpdateStart(r)
       \/ FolderUpdateCheck(r)
       \/ FolderUpdateCheckParent(r)
       \/ FolderUpdateWrite(r)

SpecIso == InitIso /\ [][NextIso]_vars

(***************************************************************************)
(* Upload, SetClipboard, Paste, VersionedEdit and the share routes, the    *)
(* requests issued one after another.  Every store call returns: the step  *)
(* of a request that waits for a call is eventually taken.                 *)
(***************************************************************************)
StepLive(r) ==
  \/ UploadFolderCheck(r)
  \/ UploadInsertFile(r)
  \/ UploadPutMain(r)
  \/ UploadUndoRow(r)
  \/ UploadPutVersion(r)
  \/ UploadInsertPerm(r)
  \/ UploadRbMain(r)
  \/ UploadRbVersion(r)
  \/ UploadRbRow(r)
  \/ UploadInsertVersion(r)
  \/ UploadLog(r)
  \/ ClipCheckItem(r)
  \/ ClipDeleteOld(r)
  \/ ClipInsert(r)
  \/ ClipLog(r)
  \/ PasteReadClip(r)
  \/ PasteCheckTarget(r)
  \/ PasteMoveFile(r)
  \/ PasteMoveFolder(r)
  \/ PasteClear(r)
  \/ PasteReadOriginal(r)
  \/ PasteDownload(r)
  \/ PasteUpload(r)
  \/ PasteInsertFile(r)
  \/ PasteUndoBlob(r)
  \/ PasteInsertPerm(r)
  \/ PasteReadFolder(r)
  \/ PasteInsertFolder(r)
  \/ PasteLog(r)
  \/ EditReadPerm(r)
  \/ EditReadFile(r)
  \/ EditReadLastVersion(r)
  \/ EditDownload(r)
  \/ EditPutVersion(r)
  \/ EditInsertVersion(r)
  \/ EditRemoveBlob(r)
  \/ EditUpdateName(r)
  \/ EditRemoveRow(r)
  \/ EditLog(r)
  \/ EditSignedUrl(r)
  \/ ResolveReadPerm(r)
  \/ DownloadReadPerm(r)
  \/ ShareReadFile(r)
  \/ DownloadBlob(r)
  \/ ShareUpdate(r)

NextLive ==
  \/ Tick
  \/ \E r \in Slots :
       \/ MayArrive /\ UploadStart(r)
       \/ MayArrive /\ ClipStart(r)
       \/ MayArrive /\ PasteStart(r)
       \/ MayArrive /\ EditStart(r)
       \/ MayArrive /\ ShareStart(r)
       \/ StepLive(r)

\* the store of the edit specifications with one earlier version of the
\* file and links that neither expire nor have an access limit
InitLive ==
  /\ InitEdit
  /\ versions # {}
  /\ \A p \in perms : p.expires_at = NULL /\ p.max_access_count = NullCount

SpecLive ==
  /\ InitLive
  /\ [][NextLive]_vars
  /\ \A r \in Slots : WF_vars(StepLive(r))

(***************************************************************************)
(* Properties of the share routes.                                         *)
(***************************************************************************)
ShareDone(r) == req[r].kind \in {"resolve", "download"} /\ Finished(r)

\* C4 as stated (requests one after another, no store error): a token with
\* max_access_count = N, N any non-negative integer, is served at most N
\* times, and is refused for its limit only once N calls have been served.
C4_Original ==
  \A p \in perms :
    (p.max_access_count # NullCount /\ ~faults) =>
      /\ served[p.share_token] <= p.max_access_count
      /\ \A r \in Slots :
           (ShareDone(r) /\ req[r].token = p.share_token /\ req[r].err = "limit")
             => served[p.share_token] >= p.max_access_count

\* C5 as stated: every Permission row whose max_access_count is set has
\* access_count <= max_access_count.
C5_Original ==
  \A p \in perms :
    p.max_access_count # NullCount => p.access_count <= p.max_access_count

\* C6: when requests on a token with max_access_count = N >= 1 overlap, more
\* than N of them can be served; whenever that has happened the stored
\* access_count is below the number served, each request having written the
\* count it read plus one.
C6_OverLimitByLostUpdate ==
  \A p \in perms :
    (Truthy(p.max_access_count) /\ ~faults
       /\ served[p.share_token] > p.max_access_count)
      => p.access_count < served[p.share_token]

C6_Witness ==
  \E p \in perms :
    /\ Truthy(p.max_access_count) /\ ~faults
    /\ served[p.share_token] > p.max_access_count

\* C7 as stated: no route serves a file on a share token that, when the route
\* read it, had expired or had access_count >= max_access_count.
C7_Original ==
  \A r \in Slots :
    (req[r].kind \in {"resolve", "download", "filesShare"}
       /\ Finished(r) /\ req[r].status = 200) => req[r].usable

\* C8: a download request that read a token whose can_download is not true
\* has answered 403, has sent no bytes and has not written access_count.
C8_DownloadNeedsCanDownload ==
  \A r \in Slots :
    (req[r].kind = "download" /\ req[r].perm # NoPerm
       /\ ~req[r].perm.can_download) =>
      /\ Finished(r) /\ req[r].status = 403
      /\ ~req[r].sent /\ ~req[r].wrote

C8_Witness ==
  \E r \in Slots :
    /\ req[r].kind = "download" /\ Finished(r) /\ req[r].perm # NoPerm
    /\ ~req[r].perm.can_download /\ req[r].err = "download"
    /\ req[r].usable

(***************************************************************************)
(* Properties of the clipboard routes.                                     *)
(***************************************************************************)
\* the latest request was a Paste of the kind, answered with success
PasteOk(r, op, ty) ==
  /\ req[r].kind = "paste" /\ req[r].pc = "done" /\ req[r].status = 200
  /\ req[r].clip.operation = op /\ req[r].clip.item_type = ty

\* C9 as stated (requests one after another): after a successful Paste of a
\* cut file into folder B the file's parent is B and the user has no
\* ClipboardEntry, so that the next Paste finds the clipboard empty.
C9_Original ==
  \A r \in Slots :
    PasteOk(r, "cut", "file") =>
      /\ \E f \in files : f.id = req[r].clip.item_id /\ f.folder_id = req[r].folder
      /\ ClipOf(req[r].user) = {}

\* C10 (requests one after another): a successful Paste of a copied file
\* leaves the ClipboardEntry it read in place and has created a File row of
\* its own, whose blob exists; k successful pastes have created k File rows,
\* and no two File rows share a blob path.
C10_CopyPasteRepeatable ==
  /\ \A r \in Slots :
       PasteOk(r, "copy", "file") =>
         /\ req[r].clip \in clipboard
         /\ \E f \in files :
              /\ f.id = req[r].fileId /\ f.id # req[r].clip.item_id
              /\ f.path = req[r].newPath /\ f.path \in blobs
  /\ Quiet => Cardinality(files) = 2 + copies
  /\ \A f, g \in files : f # g => f.path # g.path

C10_Witness ==
  /\ copies = 2 /\ nreq = 3 /\ Quiet
  /\ Cardinality(clipboard) = 1
  /\ \E r \in Slots : PasteOk(r, "copy", "file")

\* a Paste answered with a failure, no request having arrived since
PasteFailed(r) ==
  /\ req[r].kind = "paste" /\ req[r].pc = "done" /\ req[r].status # 200

\* C11 (requests one after another): a Paste that returns a failure has not
\* written the user_clipboard table, and the entry it read, if it read one,
\* is still the user's entry after the call.
C11_PasteFailureKeepsClipboard ==
  \A r \in Slots :
    PasteFailed(r) =>
      /\ ~req[r].wrote
      /\ req[r].clip # NoClip => req[r].clip \in ClipOf(req[r].user)

C11_Witness ==
  \E r \in Slots :
    /\ PasteFailed(r) /\ req[r].err = "move"
    /\ req[r].clip # NoClip /\ req[r].clip.operation = "cut"
    /\ ClipOf(req[r].user) = {req[r].clip}

\* C12 as stated, for runs in which no store call fails: the user_clipboard
\* table holds at most one entry per user, also while SetClipboard requests
\* of the user interleave, and once all requests have finished that entry is
\* the one inserted last.
C12_Original ==
  ~faults =>
    \A u \in Pasters :
      /\ Cardinality(ClipOf(u)) <= 1
      /\ Quiet => \A c \in ClipOf(u) : c.id = nextClipId - 1

\* a SetClipboard answered with an error, no request having arrived since
SetClipboardFailed(r) ==
  /\ req[r].kind = "setclip" /\ req[r].pc = "done" /\ req[r].status # 200

\* C13 as stated (requests one after another): a SetClipboard that returns
\* an error has left the user's ClipboardEntry as it was before the call.
C13_Original ==
  \A r \in Slots : SetClipboardFailed(r) => ~req[r].wrote

(***************************************************************************)
(* Properties of the folder routes.                                        *)
(***************************************************************************)
\* the latest request moved a folder (by cut-Paste or by the folder update)
\* and was answered with success
FolderMoveOk(r) ==
  /\ req[r].pc = "done" /\ req[r].status = 200
  /\ \/ /\ req[r].kind = "paste"
        /\ req[r].clip.operation = "cut" /\ req[r].clip.item_type = "folder"
     \/ /\ req[r].kind = "folderUpdate" /\ req[r].folder # Undefined

MovedFolder(r) ==
  IF req[r].kind = "paste" THEN req[r].clip.item_id ELSE req[r].item

\* C14 as stated (requests one after another): no successful move puts a
\* folder A into a target that is A itself or a descendant of A, that is,
\* after a successful move of A into B the parent chain of B does not hold A.
C14_Original ==
  \A r \in Slots : FolderMoveOk(r) => MovedFolder(r) \notin Chain(req[r].folder)

\* C15 as stated: from every folder the parent references lead to a root
\* without revisiting a folder.
C15_Original == Acyclic

\* the latest request was a folder SoftDelete and has been answered
FolderDeleteDone(r) == req[r].kind = "folderDelete" /\ req[r].pc = "done"

FolderOf(id) == CHOOSE f \in folders : f.id = id

HasLiveChild(id) == LiveSubfolders(id) # {} \/ LiveFilesIn(id) # {}

\* C16 (requests one after another): a folder SoftDelete never succeeds on
\* a folder that has a non-deleted child file or child folder, and its
\* refusal (400, the conflict answer) leaves deleted_at null; a SoftDelete
\* of the user's own live folder that has no non-deleted child succeeds and
\* sets deleted_at, unless a store call fails; a SoftDelete of an id that
\* no folder has is answered neither 200 nor 400.
C16_FolderDeleteNeedsNoLiveChild ==
  \A r \in Slots :
    FolderDeleteDone(r) =>
      IF \A g \in folders : g.id # req[r].item
      THEN req[r].status \notin {200, 400}
      ELSE
      LET f == FolderOf(req[r].item)
      IN /\ HasLiveChild(f.id) => req[r].status # 200
         /\ req[r].status = 400 => HasLiveChild(f.id) /\ f.deleted_at = NULL
         /\ req[r].status = 200 => f.deleted_at # NULL
         /\ (~faults /\ ~HasLiveChild(f.id) /\ f.user_id = req[r].user)
              => f.deleted_at # NULL

\* folder 2 was refused while file 1 was live in it, file 1 was then
\* soft-deleted, and the repeated SoftDelete of folder 2 succeeded
C16_Witness ==
  \E r, s \in Slots :
    /\ r # s /\ ~faults
    /\ req[s].kind = "folderDelete" /\ req[s].pc = "old"
    /\ req[s].status = 400 /\ req[s].item = 2
    /\ FolderDeleteDone(r) /\ req[r].status = 200 /\ req[r].item = 2
    /\ \E f \in files : f.id = 1 /\ f.folder_id = 2 /\ f.deleted_at # NULL

\* C17 as stated: in every reachable state, also while a folder SoftDelete
\* interleaves with a request that puts a child into the folder, no
\* soft-deleted folder has a non-deleted child file or child folder.
C17_Original ==
  \A f \in folders : f.deleted_at # NULL => ~HasLiveChild(f.id)

\* C18 as stated: once the deleted_at of a File or Folder row is non-null,
\* no step changes its value or resets it to null.
C18_Original ==
  [][/\ \A f \in files : f.deleted_at # NULL =>
          \A g \in files' : g.id = f.id => g.deleted_at = f.deleted_at
     /\ \A f \in folders : f.deleted_at # NULL =>
          \A g \in folders' : g.id = f.id => g.deleted_at = f.deleted_at]_vars

(* C19: in every reachable state every File row with deleted_at null has   *)
(* exactly one owner-role Permission row, also between the store calls of  *)
(* Upload and of copy-Paste and when the owner Permission insert of a      *)
(* copy-Paste fails.                                                       *)
C19_Original ==
    \A f \in files : f.deleted_at = NULL => Cardinality(OwnerPerms(f.id)) = 1

(* C20: in every reachable state every File row with deleted_at null has a *)
(* path at which the blob store holds a blob, also between the individual  *)
(* store calls of Upload and copy-Paste.                                   *)
C20_Original ==
    \A f \in files : f.deleted_at = NULL => f.path \in blobs

(***************************************************************************)
(* Properties of the edit of a shared file.                                *)
(***************************************************************************)
EditDone(r) == req[r].kind = "edit" /\ req[r].pc = "done"

(* C21: VersionedEdit changes state only when the presented token exists,  *)
(* has role edit, is not expired and is not exhausted; with any other      *)
(* token it fails with CapabilityError (403) and File.name, the            *)
(* FileVersion rows and the blob store are unchanged.                      *)
C21_Original ==
  \A r \in Slots :
    req[r].kind = "edit" =>
      /\ req[r].wrote => (req[r].perm.role = "edit" /\ req[r].usable)
      /\ (EditDone(r) /\ req[r].perm # NoPerm /\ ~req[r].usable) => req[r].status = 403

(* C22: in every reachable state, concurrent VersionedEdit requests        *)
(* included, no two FileVersion rows of the same file have the same        *)
(* version_number.                                                         *)
C22_Original ==
  \A v, w \in versions :
    (v.file_id = w.file_id /\ v.version_number = w.version_number) => v = w

(* C23: whenever VersionedEdit returns failure after its token and file    *)
(* checks passed, File.name equals its value before the request and        *)
(* neither the FileVersion row nor the version blob created by that        *)
(* request remains.                                                        *)
EditFailedLate(r) ==
  /\ EditDone(r) /\ req[r].status = 500
  /\ req[r].err \in {"download", "put", "insert", "update", "url"}

C23_Original ==
  \A r \in Slots :
    EditFailedLate(r) =>
      /\ \A f \in files : f.id = req[r].fileId => f.name = req[r].oldName
      /\ req[r].wrote =>
           /\ req[r].newPath \notin blobs
           /\ \A v \in versions : v.path # req[r].newPath

(* C24: a file copy (copy-Paste) in which a store call fails after the new *)
(* blob was uploaded returns failure and leaves neither the new blob nor   *)
(* the new File row behind; it never reports success for a new File that   *)
(* lacks an owner Permission.                                              *)
C24_Original ==
  \A r \in Slots :
    /\ PasteOk(r, "copy", "file") => OwnerPerms(req[r].fileId) # {}
    /\ (PasteFailed(r) /\ req[r].err = "insert" /\ req[r].clip # NoClip
          /\ req[r].clip.item_type = "file") =>
         /\ req[r].newPath \notin blobs
         /\ \A f \in files : f.path # req[r].newPath

(* C25 (requests one after another): when every request reads a timestamp *)
(* of its own, no two File rows have the same blob path in any reachable   *)
(* state, and the File made by a copy-Paste does not have the path of the  *)
(* File it was copied from.                                                *)
C25_DistinctBlobPaths ==
  /\ \A f, g \in files : f # g => f.path # g.path
  /\ \A r \in Slots :
       PasteOk(r, "copy", "file") =>
         \A f \in files : f.id = req[r].clip.item_id => f.path # req[r].newPath

C25_Witness ==
  \E r \in Slots :
    /\ PasteOk(r, "copy", "file")
    /\ \E f, g \in files :
         /\ f.id = req[r].clip.item_id /\ g.id = req[r].fileId
         /\ f.path \in blobs /\ g.path \in blobs

(* C26: a failure of the version-artifact blob put does not fail the       *)
(* Upload: unless the owner Permission insert fails as well, the Upload    *)
(* returns success with the File row, the main blob and the owner          *)
(* Permission in place, no compensation has run and the file has no        *)
(* FileVersion row; an Upload whose FileVersion insert failed has returned *)
(* success as well.                                                        *)
VersionsOf(fid) == {v \in versions : v.file_id = fid}

C26_VersionFailureNotFatal ==
  \A r \in Slots :
    /\ (UploadDone(r) /\ req[r].verr /\ req[r].failedAt = "none") =>
         /\ req[r].status = 201
         /\ req[r].compOk
         /\ VersionsOf(req[r].fileId) = {}
         /\ \E f \in files : f.id = req[r].fileId /\ f.path \in blobs
         /\ Cardinality(OwnerPerms(req[r].fileId)) = 1
    /\ (req[r].kind = "upload" /\ req[r].pc = "u_log") =>
         /\ \E f \in files : f.id = req[r].fileId /\ f.path \in blobs
         /\ Cardinality(OwnerPerms(req[r].fileId)) = 1

C26_Witness ==
  \E r, s \in Slots :
    /\ r # s
    /\ UploadDone(r) /\ req[r].status = 201 /\ req[r].verr
    /\ UploadDone(s) /\ req[s].status = 201 /\ ~req[s].verr
    /\ VersionsOf(req[s].fileId) = {}

(* C27: a step of a file SoftDelete leaves the blob store, every           *)
(* Permission row, every FileVersion row and every folder unchanged and    *)
(* changes at most deleted_at of the File row it names; when the actor     *)
(* holds no owner-role Permission on the file the step changes no File row *)
(* and the request does not succeed.                                       *)
FileDeleteStep(r) ==
  req[r].kind = "fileDelete" /\ Active(r) /\ req'[r] # req[r]

C27_SoftDeleteFrame ==
  [][\A r \in Slots :
       FileDeleteStep(r) =>
         /\ blobs' = blobs /\ perms' = perms /\ versions' = versions
         /\ folders' = folders /\ clipboard' = clipboard
         /\ {[f EXCEPT !.deleted_at = NULL] : f \in files'}
              = {[f EXCEPT !.deleted_at = NULL] : f \in files}
         /\ \A f \in files : f.id # req[r].fileId => f \in files'
         /\ OwnerPermOf(req[r].fileId, req[r].user) = {} =>
              /\ files' = files
              /\ req'[r].pc = "done" => req'[r].status # 200]_vars

C27_Witness ==
  \E r, s \in Slots :
    /\ r # s
    /\ req[r].kind = "fileDelete" /\ Finished(r) /\ req[r].user = 2
    /\ req[r].status = 403
    /\ req[s].kind = "fileDelete" /\ Finished(s) /\ req[s].user = 1
    /\ req[s].status = 200
    /\ \E f \in files : f.id = req[s].fileId /\ f.deleted_at # NULL /\ f.path \in blobs
    /\ OwnerPerms(req[s].fileId) # {} /\ VersionsOf(req[s].fileId) # {}

(* C28: Issue inserts a Permission row only when the caller holds the      *)
(* owner-role Permission on the file and the requested role is view or     *)
(* edit; otherwise it fails and the Permission table is unchanged.  A row  *)
(* it inserts has access_count 0 and a share_token no other Permission row *)
(* carries.                                                                *)
IssueArrives(r) ==
  ~Active(r) /\ req'[r] # req[r] /\ req'[r].kind = "issue" /\ req'[r].pc # "old"
IssueStep(r) == req[r].kind = "issue" /\ Active(r) /\ req'[r] # req[r]

C28_IssueOnlyByOwner ==
  [][\A r \in Slots :
       /\ IssueArrives(r) =>
            /\ perms' = perms
            /\ req'[r].role \notin {"view", "edit"} =>
                 (req'[r].pc = "done" /\ req'[r].status = 400)
       /\ IssueStep(r) =>
            /\ OwnerPermOf(req[r].fileId, req[r].user) = {} =>
                 /\ perms' = perms
                 /\ req'[r].pc = "done" /\ req'[r].status # 201
            /\ perms' # perms =>
                 /\ OwnerPermOf(req[r].fileId, req[r].user) # {}
                 /\ req[r].role \in {"view", "edit"}
                 /\ \E p \in perms' \ perms :
                      /\ perms' = perms \cup {p}
                      /\ p.file_id = req[r].fileId /\ p.role = req[r].role
                      /\ p.access_count = 0
                      /\ \A q \in perms : q.share_token # p.share_token]_vars

C28_Witness ==
  \E r, s \in Slots :
    /\ r # s
    /\ req[r].kind = "issue" /\ Finished(r) /\ req[r].status = 201
    /\ \E p \in perms : p.share_token = req[r].token /\ p.role = req[r].role
                        /\ p.id >= 4
    /\ req[s].kind = "issue" /\ Finished(s) /\ req[s].status = 403
    /\ req[s].user = 2 /\ req[s].fileId = 1

(* C29 (requests one after another): the step of a mutation that awaits    *)
(* the activity-log insert leaves files, folders, permissions, versions,   *)
(* the clipboard and the blob store unchanged and takes the request to the *)
(* same response, or the same next call, whether the insert succeeded or   *)
(* failed.                                                                 *)
LogPcs == {"u_log", "xd_log", "i_log", "e_log", "c_log", "p_log"}

LogStep(r) == req[r].pc \in LogPcs /\ req'[r] # req[r]

AfterLog(q) ==
  IF q.kind = "edit" THEN [q EXCEPT !.pc = "e_url"]
  ELSE [q EXCEPT !.pc = "done",
                 !.status = IF q.kind \in {"upload", "issue"} THEN 201 ELSE 200]

C29_LogFailureChangesNothing ==
  [][\A r \in Slots :
       LogStep(r) =>
         /\ req'[r] = AfterLog(req[r])
         /\ <<files, folders, perms, blobs, versions, clipboard>>'
              = <<files, folders, perms, blobs, versions, clipboard>>]_vars

C29_Witness ==
  \E r, s \in Slots :
    /\ r # s
    /\ req[r].kind = "edit" /\ Finished(r) /\ req[r].status = 200
    /\ req[s].kind = "fileDelete" /\ Finished(s) /\ req[s].status = 200
    /\ logs = {}

(* C30 (requests one after another): when SetClipboard, the target         *)
(* validation of Paste, the folder validation of Upload or the folder      *)
(* delete looks up an id that is not a live row of the caller, the request *)
(* is answered 404 with one and the same message and the store is          *)
(* unchanged, whether no row has that id or the row belongs to another     *)
(* user.                                                                   *)
Answer(q) == [pc |-> q.pc, status |-> q.status, err |-> q.err]

NotOwnItem(q) ==
  (IF q.itemType = "file" THEN OwnLiveFile(q.item, q.user)
   ELSE LiveFolder(q.item, q.user)) = {}

LookupStep(r, pc) == req[r].pc = pc /\ req'[r] # req[r]

NotFound(why) == [pc |-> "done", status |-> 404, err |-> why]

C30_MissingAndForeignAlike ==
  [][\A r \in Slots :
       /\ (LookupStep(r, "c_item") /\ NotOwnItem(req[r])) =>
            (Answer(req'[r]) = NotFound("item") /\ store' = store)
       /\ (LookupStep(r, "p_target") /\ LiveFolder(req[r].folder, req[r].user) = {}) =>
            (Answer(req'[r]) = NotFound("target") /\ store' = store)
       /\ (LookupStep(r, "u_folder") /\ LiveFolder(req[r].folder, req[r].user) = {}) =>
            (Answer(req'[r]) = NotFound("none") /\ store' = store)
       /\ (LookupStep(r, "fd_folder") /\ LiveFolder(req[r].item, req[r].user) = {}) =>
            (Answer(req'[r]) = NotFound("folder") /\ store' = store)]_vars

C30_Witness ==
  \E r, s \in Slots :
    /\ r # s /\ ~faults
    /\ req[r].kind = "setclip" /\ req[s].kind = "setclip"
    /\ req[r].itemType = "folder" /\ req[s].itemType = "folder"
    /\ req[r].item = MissingId
    /\ \E f \in folders : f.id = req[s].item /\ f.user_id # req[s].user
                          /\ f.deleted_at = NULL
    /\ Finished(r) /\ Finished(s)
    /\ [Answer(req[r]) EXCEPT !.pc = "done"] = [Answer(req[s]) EXCEPT !.pc = "done"]
    /\ req[r].status = 404

(* C31 (requests one after another): every step of a Paste of a copied     *)
(* folder leaves the File rows, the blobs and the existing Folder rows as  *)
(* they are; its insert step adds exactly one Folder row, of the caller,   *)
(* under the target folder, named as the source with " - Copy" appended,   *)
(* and only a Paste whose insert added that row goes on to answer 200.     *)
FolderCopyStep(r) ==
  /\ req[r].kind = "paste" /\ Active(r) /\ req'[r] # req[r]
  /\ req[r].pc \in {"p_forig", "p_finsert", "p_log"}
  /\ req[r].clip.item_type = "folder" /\ req[r].clip.operation = "copy"

CopySuffix == <<" ", "-", " ", "C", "o", "p", "y">>

IsFolderCopy(new, r) ==
  /\ new.user_id = req[r].user
  /\ new.parent_id = req[r].folder
  /\ new.deleted_at = NULL
  /\ \E src \in folders :
       /\ src.id = req[r].clip.item_id /\ src.user_id = new.user_id
       /\ new.name = src.name \o CopySuffix

C31_FolderCopyIsShallow ==
  [][\A r \in Slots : FolderCopyStep(r) =>
       /\ <<files, blobs, perms, versions>>' = <<files, blobs, perms, versions>>
       /\ req[r].pc # "p_finsert" => folders' = folders
       /\ req[r].pc = "p_finsert" =>
            \/ folders' = folders /\ req'[r].status = 500
            \/ /\ req'[r].pc = "p_log"
               /\ \E new \in folders' \ folders :
                    folders' = folders \cup {new} /\ IsFolderCopy(new, r)
       /\ req[r].pc = "p_log" => req'[r].status = 200]_vars

\* a folder with a live child was copied: the copy exists and has no child,
\* the child is still under the source
C31_Witness ==
  \E r \in Slots :
    /\ req[r].kind = "paste" /\ Finished(r) /\ req[r].status = 200
    /\ req[r].clip.item_type = "folder" /\ req[r].clip.operation = "copy"
    /\ \E new, kid \in folders :
         /\ new.id >= 4 /\ new.parent_id = req[r].folder
         /\ kid.parent_id = req[r].clip.item_id /\ kid.deleted_at = NULL
         /\ \A f \in folders : f.parent_id # new.id
         /\ \A f \in files : f.folder_id # new.id

\* C32 as stated: the FileVersion row inserted by a VersionedEdit that
\* answered 200 is still in file_versions, whatever other edits of the file
\* have done since.
C32_Original ==
  \A r \in Slots :
    (EditDone(r) /\ req[r].status = 200) => EditVersionRow(r) \in versions

\* a step of a Resolve or download request
ShareStep(r) ==
  /\ req[r].kind \in {"resolve", "download"} /\ Active(r) /\ req'[r] # req[r]

StoredCount(t) == (CHOOSE p \in perms : p.share_token = t).access_count

(* C34 as stated (requests one after another): the step of a Resolve or    *)
(* download that answers 404 or 403 leaves the permissions as they are,    *)
(* and the step that answers 200 leaves the stored access_count of the     *)
(* token one higher than it was.                                           *)
C34_Original ==
  [][\A r \in Slots : ShareStep(r) =>
       /\ req'[r].status \in {403, 404} => perms' = perms
       /\ req'[r].status = 200 =>
            perms' = SetAccessCount(req[r].token, StoredCount(req[r].token) + 1)]_vars

\* C35 as stated: no step lowers the stored access_count of a Permission
\* row, also when three Resolve or download requests on one token overlap.
C35_Original ==
  [][\A p \in perms : \A q \in perms' :
       q.id = p.id => q.access_count >= p.access_count]_vars

\* C33 as stated: the clipboard read of a Paste answers 404 exactly when
\* user_clipboard holds no entry of the caller at that moment.
C33_Original ==
  [][\A r \in Slots :
       (req[r].kind = "paste" /\ req[r].pc = "p_clip" /\ req'[r] # req[r]) =>
         (req'[r].status = 404 <=> ClipOf(req[r].user) = {})]_vars

(* C36: no step of a Paste removes a ClipboardEntry other than the one the *)
(* Paste read at its start, also when a SetClipboard of the same user has  *)
(* replaced that entry in between.                                         *)
C36_PasteClearsOnlyItsEntry ==
  [][\A r \in Slots :
       (req[r].kind = "paste" /\ Active(r) /\ req'[r] # req[r]) =>
         \A c \in clipboard : c # req[r].clip => c \in clipboard']_vars

\* a cut-Paste answered 200 whose clearing delete succeeded while the user
\* held a newer entry, and that entry is still there
C36_Witness ==
  \E r \in Slots :
    /\ req[r].kind = "paste" /\ Finished(r) /\ req[r].status = 200
    /\ req[r].clip.operation = "cut" /\ req[r].wrote /\ req[r].newer
    /\ \E c \in ClipOf(req[r].user) : c.id > req[r].clip.id

\* the item of clipboard entry c is soft-deleted
ItemDeleted(c) ==
  IF c.item_type = "file"
  THEN \E f \in files : f.id = c.item_id /\ f.deleted_at # NULL
  ELSE \E f \in folders : f.id = c.item_id /\ f.deleted_at # NULL

(* C37 as stated (requests one after another): a step of a Paste whose     *)
(* clipboard item is soft-deleted changes no File row, no Folder row and   *)
(* no blob, and does not answer 200.                                       *)
C37_Original ==
  [][\A r \in Slots :
       (/\ req[r].kind = "paste" /\ Active(r) /\ req'[r] # req[r]
        /\ req[r].clip # NoClip /\ ItemDeleted(req[r].clip)) =>
         /\ <<files, folders, blobs>>' = <<files, folders, blobs>>
         /\ req'[r].status # 200]_vars

\* request r arrives or takes a step
Acts(r) == req'[r] # req[r] /\ req'[r].pc # "old"

\* pid is not a folder of another user than u
ParentNotForeign(pid, u) ==
  pid = NULL \/ \A g \in folders : g.id = pid => g.user_id = u

(* C38 (requests one after another): a step of an Upload, SetClipboard,    *)
(* Paste, clipboard clear, file or folder SoftDelete, or file or folder    *)
(* update of user U leaves every File, Folder and ClipboardEntry row of    *)
(* another user as it is, and every File or Folder row it writes is U's    *)
(* and is not under a folder of another user.                              *)
C38_NoCrossUserWrite ==
  [][\A r \in Slots : Acts(r) =>
       LET u == req'[r].user
       IN /\ \A f \in files : f.user_id # u => f \in files'
          /\ \A f \in folders : f.user_id # u => f \in folders'
          /\ \A c \in clipboard : c.user_id # u => c \in clipboard'
          /\ \A f \in files' \ files :
               f.user_id = u /\ ParentNotForeign(f.folder_id, u)
          /\ \A f \in folders' \ folders :
               f.user_id = u /\ ParentNotForeign(f.parent_id, u)]_vars

\* user 1 cleared the clipboard and was refused the SoftDelete of the file
\* of user 2; the rows of user 2 are as they were
C38_Witness ==
  \E r, s \in Slots :
    /\ req[r].kind = "clear" /\ req[r].user = 1 /\ req[r].status = 200
    /\ req[s].kind = "fileDelete" /\ req[s].user = 1 /\ req[s].fileId = 2
    /\ Finished(s) /\ req[s].status = 403
    /\ \E c \in clipboard : c.user_id = 2
    /\ \E f \in files : f.id = 2 /\ f.user_id = 2 /\ f.deleted_at = NULL

\* the response of request r has been sent
Responded(r) == req[r].status # 0

(* C39 (every store call returns): a request being handled has sent no     *)
(* response, a handled request has sent one, so the response follows the   *)
(* last store call of the request, its compensating calls included; and    *)
(* every Upload, Paste, VersionedEdit, Resolve and download request that   *)
(* is being handled is eventually answered.                                *)
C39_EveryRequestAnswered ==
  /\ [](\A r \in Slots : /\ Active(r) => ~Responded(r)
                         /\ Finished(r) => Responded(r))
  /\ \A r \in Slots : Active(r) ~> Finished(r)

\* a Paste, an Upload and a VersionedEdit that failed after a write have
\* run their compensating calls and answered 500
C39_Witness ==
  \E r \in Slots :
    /\ Finished(r) /\ req[r].status = 500
    /\ \/ req[r].kind = "paste" /\ req[r].err = "insert"
       \/ req[r].kind = "upload" /\ req[r].failedAt = "perm"
       \/ req[r].kind = "edit" /\ req[r].err = "update"

====
